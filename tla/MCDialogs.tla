------------------------------ MODULE MCDialogs ------------------------------
\* The owner in the private chat with the bot and in a group.
EXTENDS Dialogs
Here(kinds) == [places |-> {"dm"}, kinds |-> kinds]
MCScenes ==
  {Here({"text", "edit"}), Here({"edit", "reply", "rename"}), Here({"text", "file", "batch"}),
   Here({"reply", "batch"}), Here({"now", "edit", "cancel"}),
   [places |-> {"dm", "group"}, kinds |-> {"text", "rename"}]}
=============================================================================
