----------------------------- MODULE MCRenameJob -----------------------------
\* Three files: the first two have one name in Telegram and keep it; the third, as
\* large as the cap, has names of its own.
EXTENDS RenameJob

MCFileId == <<1, 2, 3>>
MCOldName == <<"e", "e", "g">>
MCNewName == <<"e", "e", "h">>
MCSize == <<1, 1, 2>>
=============================================================================
