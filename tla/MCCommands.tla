------------------------------ MODULE MCCommands ------------------------------
(* Commands for TLC: every command with every link alone and in pairs, with another *)
(* word that may look like a GoFile identifier, retries of                          *)
(* hosts, and two users who store keys and credentials while their jobs run.        *)
EXTENDS Commands

Base == [cmd |-> "m", user |-> "ann", links |-> <<>>, replied |-> <<>>, file |-> "none", mirror |-> FALSE,
         tg |-> FALSE, unzip |-> FALSE, to |-> {}, word |-> FALSE, valueless |-> FALSE, large |-> FALSE,
         host |-> "gofile", what |-> "token", delete |-> FALSE]
Link(pre, kind, n) == [pre |-> pre, kind |-> kind, n |-> n]
Targets == {"page", "file", "stream", "drive", "mega", "gofile", "magnet", "torrent"}
Ones == {<<Link(<<>>, k, 1)>> : k \in Targets}
        \cup {<<Link(<<p[1]>>, p[2], 1)>> : p \in {<<"gdrive:", "drive">>, <<"mega:", "mega">>, <<"gofile:", "gofile">>,
                <<"direct:", "file">>, <<"cdl:", "page">>, <<"bare", "gofile">>, <<"bare", "mega">>}}
Pairs(S) == {<<a[1], [b[1] EXCEPT !.n = 2]>> : a \in S, b \in S}
Twos == Pairs({<<Link(<<>>, k, 1)>> : k \in {"page", "file", "mega", "gofile", "magnet"}})
Lists == {<<>>} \cup Ones \cup Pairs(Ones)
Commands == Downloads \cup {"gofile"}

LinkScene ==
  {[Base EXCEPT !.cmd = c, !.links = l] : c \in Commands \ {"m", "gofile"}, l \in Lists}
  \cup {[Base EXCEPT !.cmd = c, !.links = l] : c \in {"m", "gofile"}, l \in Ones \cup Twos}
  \cup {[Base EXCEPT !.cmd = c, !.replied = l] : c \in Commands, l \in Ones \cup Twos}
  \cup {[Base EXCEPT !.cmd = c, !.links = l, !.word = w, !.valueless = ~w] : c \in Commands, l \in {<<>>} \cup Ones, w \in BOOLEAN}
  \cup {[Base EXCEPT !.cmd = c, !.replied = l, !.word = TRUE] : c \in Commands, l \in Ones}
  \cup {[Base EXCEPT !.cmd = c, !.file = f, !.unzip = z, !.word = w] :
           c \in {"m", "gofile", "tor", "aria", "unzip"}, f \in {"archive", "torrent"}, z \in BOOLEAN, w \in BOOLEAN}
FlagScene ==
  {[Base EXCEPT !.cmd = c, !.links = l, !.mirror = m, !.tg = t, !.to = to, !.large = big, !.word = w] :
     c \in {"m", "gofile", "fileditch", "dl", "mega", "tor", "aria"}, l \in {<<Link(<<>>, "file", 1)>>, <<Link(<<>>, "mega", 1)>>, <<Link(<<>>, "gofile", 1)>>},
     m \in BOOLEAN, t \in BOOLEAN, to \in {{}, {"pixeldrain"}}, big \in BOOLEAN, w \in BOOLEAN}
KeyScene ==
  {[Base EXCEPT !.cmd = "key", !.user = u, !.host = "pixeldrain"] : u \in Users}
  \cup {[Base EXCEPT !.cmd = "key", !.host = "gofile"], [Base EXCEPT !.cmd = "key", !.host = "pixeldrain", !.delete = TRUE]}
KeyJob == [Base EXCEPT !.cmd = "pixeldrain", !.links = <<Link(<<>>, "file", 1)>>]
Keeps(delete) == [Base EXCEPT !.cmd = "key", !.host = "pixeldrain", !.delete = delete]
JobScene == {<<KeyJob, Keeps(FALSE), Keeps(d)>> : d \in BOOLEAN} \cup [1..2 -> {KeyJob, Keeps(FALSE)}]
FileScene ==
  {[Base EXCEPT !.cmd = "file", !.user = u, !.what = f] : u \in Users, f \in {"accounts", "token"}}
  \cup {[Base EXCEPT !.cmd = "file", !.user = "ann", !.what = "cookies", !.delete = d] : d \in BOOLEAN}
  \cup {[Base EXCEPT !.cmd = "gd", !.links = <<Link(<<>>, "drive", 1)>>, !.user = u] : u \in Users}
  \cup {[Base EXCEPT !.cmd = "gdl", !.links = <<Link(<<>>, "page", 1)>>]}
MCEither == BOOLEAN
MCScenes == [1..1 -> LinkScene \cup FlagScene] \cup JobScene \cup [1..3 -> KeyScene] \cup [1..3 -> FileScene]
=============================================================================
