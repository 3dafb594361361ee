--------------------------- MODULE WatcherProcess ---------------------------
(***************************************************************************)
(* The watcher of `block-sleep when` as the commands around it see it: a   *)
(* process that comes and goes, a lock, and what the state file says of    *)
(* them.  A process announces itself before it has checked anything; from  *)
(* then on a lock is taken and given back in one step with the file that   *)
(* tells of it; and a process that ends leaves no lock, and no file that   *)
(* passes for its successor's.                                             *)
(*                                                                         *)
(* WhenWatcher, the inside of the process, and WhenUnit, the unit around   *)
(* it, implement this specification: the process that WhenUnit composes    *)
(* with systemd and the commands takes the steps that the watcher takes.   *)
(***************************************************************************)

VARIABLES
    proc,      \* the process of the unit: none, starting, or up
    lock,      \* it has an inhibitor
    file       \* what the state file says of this process

vars == <<proc, lock, file>>

\* The file has the PID of the process and what it found.
Own == {"unchecked", "waiting", "blocking"}

TypeOK ==
    /\ proc \in {"none", "starting", "up"}
    /\ lock \in BOOLEAN
    /\ file \in Own \cup {"absent", "other"}

Init ==
    /\ proc = "none"
    /\ lock = FALSE
    /\ file \in {"absent", "other"}

Begin ==
    /\ proc = "none" /\ proc' = "starting"
    /\ UNCHANGED <<lock, file>>

Announce ==
    /\ proc = "starting" /\ proc' = "up"
    /\ ~lock /\ lock' = FALSE
    /\ file' = "unchecked"

Check(held) ==
    /\ proc = "up" /\ proc' = "up"
    /\ lock' = held
    /\ file' = IF held THEN "blocking" ELSE "waiting"

\* The file is of nobody any more; only a process that is up removes it.
End ==
    /\ proc # "none" /\ proc' = "none"
    /\ lock' = FALSE
    /\ \/ file' = IF file \in Own THEN "other" ELSE file
       \/ proc = "up" /\ file' = "absent"

\* A command removes the file,
Sweep ==
    /\ file' = "absent"
    /\ UNCHANGED <<proc, lock>>

\* or writes one for a process that is to come.
Place ==
    /\ proc = "none"
    /\ file' = "other"
    /\ UNCHANGED <<proc, lock>>

Next == Begin \/ Announce \/ (\E held \in BOOLEAN : Check(held)) \/ End \/ Sweep \/ Place

Spec == Init /\ [][Next]_vars

=============================================================================
