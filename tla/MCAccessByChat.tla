---------------------------- MODULE MCAccessByChat ----------------------------
(* Instances of access administration with the chat.  Either only its pages   *)
(* are used, by several requests, or the chat as well, with fewer of them.    *)
EXTENDS AccessByChat, MCAccessAdmin

CONSTANT ChatRequests  \* bound: requests of the pages when the chat is used

VARIABLE focus

\* Bounds: with the chat, one administrator writes in it and the other one uses the
\* pages, for changes that may undo each other.
OneWrites == chat'.command.actor \in {demo, "nobody"}
OtherUses(p) ==
  proc'[p].pc # "idle" /\ proc[p].pc = "idle" =>
    proc'[p].actor = admin /\ proc'[p].kind \in {"block", "unblock", "revoke"}

PagesOnly == focus = "pages" /\ Next /\ UNCHANGED chatVars
WithChat ==
  /\ focus = "chat"
  /\ \/ ChatStep /\ OneWrites
     \/ \E p \in Procs :
          /\ proc[p].pc = "idle" => requests < ChatRequests
          /\ Administration(p)
          /\ OtherUses(p)

AccessInit == Init /\ ChatInit /\ focus \in {"pages", "chat"}
AccessNext == UNCHANGED focus /\ (PagesOnly \/ WithChat)
AccessSpec == AccessInit /\ [][AccessNext]_<<vars, chatVars, focus>>
=============================================================================
