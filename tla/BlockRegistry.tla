--------------------------- MODULE BlockRegistry ---------------------------
(***************************************************************************)
(* The state directory, shared by several blocks and by commands that run  *)
(* at the same time: `<id>.json`, `<id>.json.tmp` and `<id>.pipe` of       *)
(* state.go, with nothing that locks them.                                 *)
(*                                                                         *)
(* A block is one start, client and daemon, to its end; it has its PID in  *)
(* the model, which is the block itself.  A command reads a state file,    *)
(* judges by the PID whether its block is active, and cleans up, extends   *)
(* or stops.  activeStates reads all files first; each of them is then     *)
(* handled by itself, as late as it likes, and so is a command here.  A    *)
(* client here gives up only after its daemon has; the limits of five      *)
(* seconds in both are in BlockDaemon.                                     *)
(*                                                                         *)
(* What goes wrong when two operations overlap on one ID is many things,   *)
(* and the code takes no precaution.  `raced` has the IDs on which two did *)
(* until the ID is free again; of all others the properties below hold.    *)
(***************************************************************************)
EXTENDS Integers, FiniteSets

CONSTANTS
    Blocks,      \* blocks that will be started
    Commands,    \* commands that may run at the same time
    MaxID,       \* bound: IDs
    Zero,        \* PID 0, of a placeholder
    Half,        \* what is in a file that is not all written
    NoFile

ASSUME MaxIDAssumption == MaxID \in Nat \ {0}
ASSUME NamesAssumption ==
    /\ Zero # Half /\ Zero # NoFile /\ Half # NoFile
    /\ {Zero, Half, NoFile} \cap Blocks = {}
    /\ Blocks \cap Commands = {}
    /\ IsFiniteSet(Blocks) /\ IsFiniteSet(Commands)

IDs == 1 .. MaxID

PIDs == Blocks \cup {Zero}

Actors == Blocks \cup Commands

VARIABLES
    path,      \* <id>.json: the PID in it, Half or NoFile
    tmp,       \* <id>.json.tmp
    fifo,      \* <id>.pipe: the block that made it, or NoFile
    at,        \* where a block or a command is
    id,        \* the ID it works on
    saw,       \* the PID that a command has read
    op,        \* what a command is
    fd,        \* how far an actor is in writeState, and what its file is now
    orderly,   \* auxiliary: the block ended through its deferred calls
    taken,     \* blocks that are gone and whose PID is another process's
    raced      \* auxiliary: see above

fileVars == <<path, tmp, fifo>>
cmdVars == <<saw, op>>
pidVars == <<orderly, taken>>

vars == <<fileVars, at, id, cmdVars, fd, pidVars, raced>>

TypeOK ==
    /\ path \in [IDs -> PIDs \cup {Half, NoFile}]
    /\ tmp \in [IDs -> PIDs \cup {Half, NoFile}]
    /\ fifo \in [IDs -> Blocks \cup {NoFile}]
    /\ at \in [Actors -> {"none", "listed", "placed", "read", "fifo", "opened",
                          "up", "failed", "leaving", "unlisted", "gone",
                          "judge", "active", "stale", "wrote"}]
    /\ id \in [Actors -> IDs]
    /\ saw \in [Commands -> PIDs]
    /\ op \in [Commands -> {"status", "extend", "stop"}]
    /\ fd \in [Actors -> {"none", "tmp", "path", "lost", "closed"}]
    /\ orderly \subseteq Blocks /\ taken \subseteq Blocks
    /\ raced \subseteq IDs

Init ==
    /\ path = [i \in IDs |-> NoFile] /\ tmp = path /\ fifo = path
    /\ at = [a \in Actors |-> "none"] /\ id = [a \in Actors |-> 1]
    /\ saw = [c \in Commands |-> Zero] /\ op = [c \in Commands |-> "status"]
    /\ fd = [a \in Actors |-> "none"]
    /\ orderly = {} /\ taken = {} /\ raced = {}

Alive(b) == at[b] \notin {"none", "failed", "gone"}

\* /proc/PID is there.
processExists(pid) == pid \in Blocks /\ (Alive(pid) \/ pid \in taken)

Goes(a, to) == at' = [at EXCEPT ![a] = to]

-----------------------------------------------------------------------------
(***************************************************************************)
(* writeState                                                              *)
(***************************************************************************)

\* Variant: the state file is removed first.
OpensRemoving(a) ==
    /\ fd[a] = "none"
    /\ fd' = [fd EXCEPT ![a] = "tmp"]
    /\ tmp' = [tmp EXCEPT ![id[a]] = Half]
    /\ path' = [path EXCEPT ![id[a]] = NoFile]
    /\ UNCHANGED fifo

\* os.WriteFile opens the temporary file, and empties it if it is there.
Opens(a) ==
    /\ fd[a] = "none"
    /\ fd' = [fd EXCEPT ![a] = "tmp"]
    /\ tmp' = [tmp EXCEPT ![id[a]] = Half]
    /\ UNCHANGED <<path, fifo>>

\* It writes, and leaves of what another one wrote there before what is longer.
Written(old, pid) == IF old = Half THEN {pid} ELSE {pid, Half}

Fills(a, pid) ==
    /\ fd[a] \in {"tmp", "path", "lost"}
    /\ fd' = [fd EXCEPT ![a] = "closed"]
    /\ CASE fd[a] = "tmp" ->
              /\ \E w \in Written(tmp[id[a]], pid) :
                   tmp' = [tmp EXCEPT ![id[a]] = w]
              /\ UNCHANGED path
         [] fd[a] = "path" ->
              /\ \E w \in Written(path[id[a]], pid) :
                   path' = [path EXCEPT ![id[a]] = w]
              /\ UNCHANGED tmp
         [] OTHER -> UNCHANGED <<path, tmp>>
    /\ UNCHANGED fifo

\* os.Rename.  Who has the temporary file open has the state file open then,
\* and who had that, a file without a name.
Renames(a) ==
    /\ fd[a] = "closed" /\ tmp[id[a]] # NoFile
    /\ path' = [path EXCEPT ![id[a]] = tmp[id[a]]]
    /\ tmp' = [tmp EXCEPT ![id[a]] = NoFile]
    /\ fd' = [x \in Actors |->
                CASE x = a                                -> "none"
                  [] id[x] = id[a] /\ fd[x] = "tmp"  -> "path"
                  [] id[x] = id[a] /\ fd[x] = "path" -> "lost"
                  [] OTHER                                -> fd[x]]
    /\ UNCHANGED fifo

\* Somebody renamed it before: an error.
CannotRename(a) ==
    /\ fd[a] = "closed" /\ tmp[id[a]] = NoFile
    /\ fd' = [fd EXCEPT ![a] = "none"]
    /\ UNCHANGED fileVars

\* os.Remove of the state file; who has it open goes on with a file without a
\* name.
Unlinks(i) ==
    /\ path' = [path EXCEPT ![i] = NoFile]
    /\ fd' = [x \in Actors |-> IF id[x] = i /\ fd[x] = "path" THEN "lost" ELSE fd[x]]
    /\ UNCHANGED tmp

-----------------------------------------------------------------------------
(***************************************************************************)
(* A block: startBlock and runDaemon                                       *)
(***************************************************************************)

\* Variant: a file is read although it cannot be parsed.
ReadableAnyway(i) == path[i] # NoFile

\* readState: the file is there and can be parsed.
Readable(i) == path[i] \in PIDs

\* Variant: the largest ID, or 1.
nextIDOffByOne ==
    {n \in IDs : (\A i \in IDs : Readable(i) => i <= n) /\ (n = 1 \/ Readable(n))}

\* One more than the largest ID that allStates can read, if that is an ID.
nextID ==
    {n \in IDs : (\A i \in IDs : Readable(i) => i < n) /\ (n = 1 \/ Readable(n - 1))}

Lists(b) ==
    /\ at[b] = "none"
    /\ \E n \in nextID : id' = [id EXCEPT ![b] = n]
    /\ Goes(b, "listed")
    /\ UNCHANGED <<fileVars, cmdVars, fd, pidVars>>

\* The placeholder, and later the PID.
Writes(b) ==
    /\ at[b] \in {"listed", "opened"}
    /\ \/ (Opens(b) \/ Fills(b, IF at[b] = "listed" THEN Zero ELSE b)) /\ at' = at
       \/ Renames(b) /\ Goes(b, IF at[b] = "listed" THEN "placed" ELSE "up")
       \/ CannotRename(b) /\ Goes(b, IF at[b] = "listed" THEN "gone" ELSE "failed")
    /\ UNCHANGED <<id, cmdVars, pidVars>>

\* runDaemon: readState, and fatalf.
Reads(b) ==
    /\ at[b] = "placed"
    /\ Goes(b, IF Readable(id[b]) THEN "read" ELSE "failed")
    /\ UNCHANGED <<fileVars, id, cmdVars, fd, pidVars>>

\* os.Remove and syscall.Mkfifo; startRun has no placeholder before.
MakesFifo(b) ==
    /\ at[b] = "read" \/ (at[b] = "listed" /\ fd[b] = "none")
    /\ fifo' = [fifo EXCEPT ![id[b]] = b]
    /\ Goes(b, "fifo")
    /\ UNCHANGED <<path, tmp, id, cmdVars, fd, pidVars>>

\* cat and the daemon open the FIFO of that name, each by itself; they meet if
\* nobody has removed it or put another in its place.
OpensFifo(b) ==
    /\ at[b] = "fifo"
    /\ Goes(b, IF fifo[id[b]] = b THEN "opened" ELSE "failed")
    /\ UNCHANGED <<fileVars, id, cmdVars, fd, pidVars>>

\* SIGKILL, a failure of the start, or an os.Exit of startRun: no deferred call.
\* Where the daemon's client is left, it gives up.
Dies(b) ==
    /\ at[b] \notin {"none", "gone"}
    /\ fd' = [fd EXCEPT ![b] = "none"]
    /\ \/ Goes(b, "gone")
       \/ at[b] \in {"placed", "read", "fifo", "opened"} /\ Goes(b, "failed")
    /\ UNCHANGED <<fileVars, id, cmdVars, pidVars>>

\* startBlock, when the daemon did not get up: removeState.
GivesUp(b) ==
    /\ at[b] = "failed"
    /\ Unlinks(id[b])
    /\ Goes(b, "gone")
    /\ UNCHANGED <<fifo, id, cmdVars, pidVars>>

\* The mode is done.
Ends(b) ==
    /\ at[b] = "up"
    /\ Goes(b, "leaving")
    /\ UNCHANGED <<fileVars, id, cmdVars, fd, pidVars>>

\* Variant: nothing removes the state file.
RemovesNoState(b) ==
    /\ at[b] = "leaving"
    /\ Goes(b, "unlisted")
    /\ UNCHANGED <<fileVars, id, cmdVars, fd, pidVars>>

\* The deferred calls: removeState,
RemovesState(b) ==
    /\ at[b] = "leaving"
    /\ Unlinks(id[b])
    /\ Goes(b, "unlisted")
    /\ UNCHANGED <<fifo, id, cmdVars, pidVars>>

\* and os.Remove(fp), whoever made what is there.
RemovesFifo(b) ==
    /\ at[b] = "unlisted"
    /\ fifo' = [fifo EXCEPT ![id[b]] = NoFile]
    /\ Goes(b, "gone")
    /\ orderly' = orderly \cup {b}
    /\ UNCHANGED <<path, tmp, id, cmdVars, fd, taken>>

\* The PID of a block that is gone is given to another process.
PIDTaken(b) ==
    /\ at[b] = "gone" /\ b \notin taken
    /\ taken' = taken \cup {b}
    /\ UNCHANGED <<fileVars, at, id, cmdVars, fd, orderly>>

-----------------------------------------------------------------------------
(***************************************************************************)
(* A command: status, extend, stop                                         *)
(***************************************************************************)

\* readState
CmdReads(c) ==
    /\ at[c] = "none"
    /\ \E i \in IDs, o \in {"status", "extend", "stop"} :
         /\ Readable(i)
         /\ id' = [id EXCEPT ![c] = i]
         /\ saw' = [saw EXCEPT ![c] = path[i]]
         /\ op' = [op EXCEPT ![c] = o]
    /\ Goes(c, "judge")
    /\ UNCHANGED <<fileVars, fd, pidVars>>

\* A command is at its end, and what it knew is gone.
Forgets(c) ==
    /\ id' = [id EXCEPT ![c] = 1]
    /\ saw' = [saw EXCEPT ![c] = Zero]
    /\ op' = [op EXCEPT ![c] = "status"]

\* isBlockActive; what status prints of an active block is not here.
CmdJudges(c) ==
    /\ at[c] = "judge"
    /\ IF processExists(saw[c]) /\ op[c] = "status"
         THEN Goes(c, "none") /\ Forgets(c)
         ELSE /\ Goes(c, IF processExists(saw[c]) THEN "active" ELSE "stale")
              /\ UNCHANGED <<id, cmdVars>>
    /\ UNCHANGED <<fileVars, fd, pidVars>>

\* removeState, and except in extend the FIFO.
CmdCleansUp(c) ==
    /\ at[c] = "stale"
    /\ Unlinks(id[c])
    /\ fifo' = IF op[c] = "extend" THEN fifo ELSE [fifo EXCEPT ![id[c]] = NoFile]
    /\ Goes(c, "none") /\ Forgets(c)
    /\ UNCHANGED pidVars

\* extendByID: writeState of what it has read, with another end.
ExtendWrites(c) ==
    /\ at[c] = "active" /\ op[c] = "extend"
    /\ \/ (Opens(c) \/ Fills(c, saw[c])) /\ UNCHANGED <<at, id, cmdVars>>
       \/ Renames(c) /\ Goes(c, "wrote") /\ UNCHANGED <<id, cmdVars>>
       \/ CannotRename(c) /\ Goes(c, "none") /\ Forgets(c)
    /\ UNCHANGED pidVars

\* SIGUSR1, which an up block answers by reading its file, and SIGTERM, which
\* ends it; the block of that PID may be gone.
CmdSignals(c) ==
    /\ \/ at[c] = "wrote"
       \/ at[c] = "active" /\ op[c] = "stop"
    /\ at' = [at EXCEPT ![c] = "none",
                        ![saw[c]] = IF @ = "up" /\ (op[c] = "stop" \/ ~Readable(id[saw[c]]))
                                      THEN "leaving" ELSE @]
    /\ Forgets(c)
    /\ UNCHANGED <<fileVars, fd, pidVars>>

-----------------------------------------------------------------------------

\* Whoever is in the middle of an operation on the files of i.
Busy(i) ==
    {a \in Actors : id[a] = i /\ at[a] \notin {"none", "up", "gone"}}

\* Nothing is left of i.
Free(i) ==
    /\ path[i] = NoFile /\ tmp[i] = NoFile /\ fifo[i] = NoFile
    /\ Busy(i) = {} /\ \A b \in Blocks : id[b] = i => ~Alive(b)

NotesRaces ==
    raced' = {i \in IDs : \/ i \in raced /\ ~Free(i)'
                          \/ \E a, b \in Busy(i)' : a # b}

BlockStep(b) ==
    \/ Lists(b) \/ Writes(b) \/ Reads(b) \/ MakesFifo(b) \/ OpensFifo(b) \/ Dies(b)
    \/ GivesUp(b) \/ Ends(b) \/ RemovesState(b) \/ RemovesFifo(b) \/ PIDTaken(b)

CommandStep(c) ==
    CmdReads(c) \/ CmdJudges(c) \/ CmdCleansUp(c) \/ ExtendWrites(c) \/ CmdSignals(c)

Next ==
    /\ \/ \E b \in Blocks : BlockStep(b)
       \/ \E c \in Commands : CommandStep(c)
    /\ NotesRaces

Spec == Init /\ [][Next]_vars

-----------------------------------------------------------------------------

\* README.md:419: each block gets its own files.  Two blocks that live have two
\* IDs, unless operations have overlapped on theirs: two starts that list the
\* directory together, a clean-up that takes a placeholder, a start that
\* gets the ID of a block on its way out.
OneBlockPerID ==
    \A b, d \in Blocks :
        b # d /\ Alive(b) /\ Alive(d) /\ id[b] = id[d] => id[b] \in raced

\* state.go:77 and README.md:421: a block that is up has its FIFO and a state file
\* with its PID, whole at every moment, by which status, extend and stop find it;
\* unless operations have overlapped on its ID, as two extends may.
BlockIsListed ==
    \A b \in Blocks :
        at[b] = "up" /\ id[b] \notin raced => path[id[b]] = b /\ fifo[id[b]] = b

\* main.go:385, 436: no command is about to signal the PID of a block that has
\* ended in order, which may be another process's by then, unless the block ended
\* under the command's eyes or was written back by an extend; other commands find
\* no file with that PID.
SignalsHitBlocks ==
    \A c \in Commands :
        at[c] \in {"active", "wrote"} /\ saw[c] \in orderly => id[c] \in raced

=============================================================================
