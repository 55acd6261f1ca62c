------------------------------ MODULE Watchdog ------------------------------
(***************************************************************************)
(* The watchdog of the fleet, src/src/fleet/watchdog.ts: it compares what   *)
(* it sees with what it saw last and rings the bell.  A subject is the      *)
(* machine of a node, or the node.                                          *)
(***************************************************************************)
EXTENDS Naturals

Subjects == {"machine", "node"}

VARIABLES
  last,   \* the map of the same name, gone with the process
  bell    \* per subject: an alert is unread; what the latest notification says

watchVars == <<last, bell>>

WatchInit ==
  /\ last = [x \in Subjects |-> "none"]
  /\ bell = [x \in Subjects |-> [unread |-> FALSE, latest |-> "none"]]

(* hasUnreadAlert with the brackets of the alert text (a mutation).         *)
HasUnreadAlertAsMeant(x) == bell[x].unread

(* hasUnreadAlert.  For a machine the text is searched for the id in        *)
(* full-width brackets, which no alert contains.                            *)
HasUnreadAlert(x) == x = "node" /\ bell[x].unread

Notify(x, what) ==
  IF what = "down" THEN [unread |-> TRUE, latest |-> "down"]
  ELSE [unread |-> bell[x].unread, latest |-> "up"]

(* One sweep over a subject that is seen as down, up or in between.         *)
SeenDown(x) ==
  [bell |-> IF last[x] # "offline" /\ ~HasUnreadAlert(x) THEN Notify(x, "down") ELSE bell[x],
   last |-> "offline"]

SeenUp(x) ==
  [bell |-> IF last[x] = "offline" THEN Notify(x, "up") ELSE bell[x], last |-> "online"]

Seen(x, how) ==
  CASE how = "down" -> SeenDown(x)
    [] how = "up" -> SeenUp(x)
    [] OTHER -> [bell |-> bell[x], last |-> last[x]]

(* The sweep: a machine is down without a heartbeat, a node when its        *)
(* supervisor has given up; on the way it is neither.                       *)
Sweep(online, state) ==
  LET how == [x \in Subjects |->
                CASE x = "machine" -> IF online THEN "up" ELSE "down"
                  [] x = "node" /\ state = "offline" -> "down"
                  [] x = "node" /\ state = "live" -> "up"
                  [] OTHER -> "between"]
  IN /\ bell' = [x \in Subjects |-> Seen(x, how[x]).bell]
     /\ last' = [x \in Subjects |-> Seen(x, how[x]).last]

(* Somebody reads the notifications.                                        *)
MarkRead ==
  /\ \E x \in Subjects : bell[x].unread
  /\ bell' = [x \in Subjects |-> [bell[x] EXCEPT !.unread = FALSE]]
  /\ UNCHANGED last
=============================================================================
