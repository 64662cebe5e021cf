------------------------------ MODULE MCUploads ------------------------------
\* A photo, an mkv, a video and a file; albums of three files and three units, a
\* file of four is too large for anything.
EXTENDS Uploads

Group == <<"photo", "mkv", "video", "file">>
NoFile == -1
FileSizes == {-1, 0, 1, 2, 4}
=============================================================================
