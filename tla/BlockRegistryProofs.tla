------------------------ MODULE BlockRegistryProofs ------------------------
(***************************************************************************)
(* That blocks whose operations did not overlap on an ID keep to           *)
(* themselves, for any number of blocks, commands and IDs.  All of it      *)
(* rests on one fact: on an ID that is not raced at most one actor is in   *)
(* the middle of an operation, and a block that is up is never a second.   *)
(***************************************************************************)
EXTENDS BlockRegistry, TLAPS

Started(a) == at[a] \notin {"none", "gone"}

\* What an actor writes.
Own(a) ==
    IF a \in Commands THEN saw[a] ELSE IF at[a] = "listed" THEN Zero ELSE a

Working(a) == at[a] \notin {"none", "up", "gone"}

\* One operation at a time.
SoleInv ==
    \A a, c \in Actors :
        Working(a) /\ Working(c) /\ id[a] = id[c] /\ id[a] \notin raced => a = c

\* Blocks are where only blocks can be, and so are commands.
PlaceInv ==
    /\ \A b \in Blocks : at[b] \notin {"judge", "active", "stale", "wrote"}
    /\ \A c \in Commands : at[c] \in {"none", "judge", "active", "stale", "wrote"}

\* Who is in writeState is in an operation, and owns the temporary file.
WriteInv ==
    \A a \in Actors : fd[a] # "none" =>
        /\ at[a] \in {"listed", "opened", "active"}
        /\ at[a] = "active" => op[a] = "extend"
        /\ id[a] \notin raced =>
             /\ fd[a] \in {"tmp", "closed"}
             /\ tmp[id[a]] = IF fd[a] = "tmp" THEN Half ELSE Own(a)

\* A PID in a file or in a command's hands is of a block with that ID.
PIDInv ==
    /\ \A i \in IDs : path[i] \in Blocks => at[path[i]] # "none" /\ id[path[i]] = i
    /\ \A i \in IDs : tmp[i] \in Blocks => at[tmp[i]] # "none" /\ id[tmp[i]] = i
    /\ \A c \in Commands : at[c] # "none" /\ saw[c] \in Blocks
         => at[saw[c]] # "none" /\ id[saw[c]] = id[c]

\* Two blocks that have started and have not gone have two IDs.
OneInv ==
    \A b, d \in Blocks :
        b # d /\ Started(b) /\ Started(d) /\ id[b] = id[d] => id[b] \in raced

\* A block has what it made.
ListedInv ==
    \A b \in Blocks : id[b] \notin raced =>
        /\ at[b] = "opened" => fifo[id[b]] = b
        /\ at[b] = "up" => path[id[b]] = b /\ fifo[id[b]] = b

\* What a command has read is still so,
SawInv ==
    \A c \in Commands : at[c] # "none" /\ id[c] \notin raced => path[id[c]] = saw[c]

\* and so is what it has made of it.
JudgedInv ==
    \A c \in Commands :
        /\ at[c] = "stale" => saw[c] = Zero \/ at[saw[c]] \in {"failed", "gone"}
        /\ at[c] \in {"active", "wrote"} => saw[c] \in Blocks

\* A block that has ended in order has no file any more,
UnlistedInv ==
    /\ \A b \in orderly : at[b] = "gone"
    /\ \A b \in Blocks :
         at[b] = "unlisted" \/ b \in orderly => id[b] \in raced \/ path[id[b]] # b

\* and no command knows of it.
UnseenInv ==
    \A b \in orderly : id[b] \notin raced =>
        \A c \in Commands : at[c] # "none" /\ id[c] = id[b] => saw[c] # b

RegistryInv ==
    /\ TypeOK /\ SoleInv /\ PlaceInv /\ WriteInv /\ PIDInv /\ OneInv
    /\ ListedInv /\ SawInv /\ JudgedInv /\ UnlistedInv /\ UnseenInv

\* What an actor's operation may be.
LEMMA NamesFacts ==
    /\ Zero \notin Blocks /\ Half \notin Blocks /\ NoFile \notin Blocks
    /\ Half \notin PIDs /\ NoFile \notin PIDs /\ Zero \in PIDs
    /\ \A b \in Blocks : b \in PIDs /\ b \in Actors /\ b \notin Commands
    /\ \A c \in Commands : c \in Actors /\ c \notin Blocks
    /\ 1 \in IDs
BY NamesAssumption, MaxIDAssumption DEF PIDs, Actors, IDs

\* Every step of a block keeps the types.
LEMMA BlockTypes ==
    ASSUME TypeOK, NEW b \in Blocks, BlockStep(b), NotesRaces PROVE TypeOK'
<1>0. raced' \subseteq IDs
  BY DEF NotesRaces
<1> USE NamesFacts, <1>0 DEF TypeOK, Goes, fileVars, cmdVars, pidVars
<1>1. CASE Lists(b)
  BY <1>1 DEF Lists, nextID
<1>2. CASE Writes(b)
  BY <1>2 DEF Writes, Opens, Fills, Renames, CannotRename, Written
<1>3. CASE Reads(b)
  BY <1>3 DEF Reads
<1>4. CASE MakesFifo(b)
  BY <1>4 DEF MakesFifo
<1>5. CASE OpensFifo(b)
  BY <1>5 DEF OpensFifo
<1>6. CASE Dies(b)
  BY <1>6 DEF Dies
<1>7. CASE GivesUp(b)
  BY <1>7 DEF GivesUp, Unlinks
<1>8. CASE Ends(b)
  BY <1>8 DEF Ends
<1>9. CASE RemovesState(b)
  BY <1>9 DEF RemovesState, Unlinks
<1>10. CASE RemovesFifo(b)
  BY <1>10 DEF RemovesFifo
<1>11. CASE PIDTaken(b)
  BY <1>11 DEF PIDTaken
<1> QED BY <1>1, <1>2, <1>3, <1>4, <1>5, <1>6, <1>7, <1>8, <1>9, <1>10, <1>11 DEF
     BlockStep

\* Every step of a command keeps the types.
LEMMA CommandTypes ==
    ASSUME TypeOK, NEW c \in Commands, CommandStep(c), NotesRaces PROVE TypeOK'
<1>0. raced' \subseteq IDs
  BY DEF NotesRaces
<1> USE NamesFacts, <1>0 DEF TypeOK, Goes, fileVars, cmdVars, pidVars
<1>1. CASE CmdReads(c)
  BY <1>1 DEF CmdReads, Readable
<1>2. CASE CmdJudges(c)
  BY <1>2 DEF CmdJudges, processExists, Alive, Forgets
<1>3. CASE CmdCleansUp(c)
  BY <1>3 DEF CmdCleansUp, Unlinks, Forgets
<1>4. CASE ExtendWrites(c)
  BY <1>4 DEF ExtendWrites, Opens, Fills, Renames, CannotRename, Written, Forgets
<1>5. CASE CmdSignals(c)
  BY <1>5 DEF CmdSignals, Forgets
<1> QED BY <1>1, <1>2, <1>3, <1>4, <1>5 DEF CommandStep

\* Who is in an operation on an ID that is not raced is alone in it, and the ID
\* was not raced before,
AloneStep ==
    \A a \in Actors : Working(a)' /\ (id[a] \notin raced)' =>
        /\ id'[a] \in IDs /\ id'[a] \notin raced
        /\ \A c \in Actors : Working(c)' /\ (id[c] = id[a])' => c = a

\* nor was it if a block on it is alive;
AliveStep ==
    \A b \in Blocks : Alive(b)' /\ (id[b] \notin raced)' =>
        id'[b] \in IDs /\ id'[b] \notin raced

\* if it was, nothing is left of it.
FreeStep ==
    \A i \in IDs : i \in raced /\ i \notin raced' =>
        path'[i] = NoFile /\ \A a \in Actors : id'[a] = i => ~Working(a)'

RaceStep == AloneStep /\ AliveStep /\ FreeStep

\* What NotesRaces says of the next state.
LEMMA NotesRaceStep ==
    ASSUME TypeOK', NotesRaces PROVE RaceStep
<1>1. \A a \in Actors : id'[a] \in IDs
  BY DEF TypeOK
<1>2. \A b \in Blocks : b \in Actors
  BY DEF Actors
<1>3. AloneStep
  <2> SUFFICES ASSUME NEW a \in Actors, Working(a)', (id[a] \notin raced)'
               PROVE  /\ id'[a] \notin raced
                      /\ \A c \in Actors : Working(c)' /\ (id[c] = id[a])' => c = a
    BY <1>1 DEF AloneStep
  <2>1. \A c \in Actors : Working(c)' /\ (id[c] = id[a])' => c \in Busy(id[a])'
    BY DEF Busy, Working
  <2>2. a \in Busy(id[a])' /\ \A c, d \in Busy(id[a])' : c = d
    BY <1>1, <2>1 DEF NotesRaces
  <2> QED BY <1>1, <2>1, <2>2 DEF NotesRaces, Free
<1>4. AliveStep
  BY <1>1, <1>2 DEF AliveStep, NotesRaces, Free
<1>5. FreeStep
  <2> SUFFICES ASSUME NEW i \in IDs, i \in raced, i \notin raced'
               PROVE  path'[i] = NoFile /\ \A a \in Actors : id'[a] = i => ~Working(a)'
    BY DEF FreeStep
  <2>1. Free(i)'
    BY DEF NotesRaces
  <2>2. \A a \in Actors : id'[a] = i /\ Working(a)' => a \in Busy(i)'
    BY DEF Busy, Working
  <2> QED BY <2>1, <2>2 DEF Free
<1> QED BY <1>3, <1>4, <1>5 DEF RaceStep

(***************************************************************************)
(* A lemma for each action.  In all of them the new race is out of the way *)
(* by AloneStep: who is in an operation on an ID without one is alone on   *)
(* it, so what others leave and take cannot be its own.                    *)
(***************************************************************************)

\* nextID is not the ID of a block that is up: its file can be read.
LEMMA ListsKeepsInv ==
    ASSUME RegistryInv, TypeOK', RaceStep, NEW b \in Blocks, Lists(b)
    PROVE  RegistryInv'
<1> USE NamesFacts DEF RegistryInv, RaceStep, TypeOK, Goes, fileVars, cmdVars, pidVars
<1>1. SoleInv'
  BY DEF AloneStep, SoleInv
<1>2. PlaceInv'
  BY DEF PlaceInv, Lists, nextID
<1>3. WriteInv'
  BY DEF AloneStep, Working, SoleInv, WriteInv, PlaceInv, Own, Lists, nextID
<1>4. PIDInv'
  BY DEF PIDInv, Lists, nextID
<1>5. OneInv'
  <2>1. PICK n \in nextID : id' = [id EXCEPT ![b] = n] /\ n \in IDs
    BY DEF Lists, nextID
  <2>2. ASSUME NEW x \in Blocks, x # b, Started(x)', id'[x] = n, n \notin raced' PROVE FALSE
    <3>1. n \notin raced /\ ~Working(x)'
      BY <2>1, <2>2 DEF AloneStep, Working, Lists
    <3>2. at[x] = "up" /\ id[x] = n
      BY <2>1, <2>2, <3>1 DEF Lists, Started, Working
    <3>3. Readable(n)
      BY <3>1, <3>2 DEF ListedInv, Readable
    <3> QED BY <2>1, <3>3 DEF nextID, IDs
  <2>3. id'[b] = n
    BY <2>1
  <2>4. ASSUME NEW x \in Blocks, NEW y \in Blocks, x # y, x # b, y # b, Started(x)', Started(y)',
               (id[x] = id[y])', (id[x] \notin raced)' PROVE FALSE
    BY <2>1, <2>4 DEF AliveStep, Alive, AloneStep, OneInv, Started, Lists, Working
  <2> QED BY <2>2, <2>3, <2>4 DEF OneInv
<1>6. ListedInv'
  BY DEF AliveStep, Alive, ListedInv, Lists, nextID
<1>7. SawInv'
  BY DEF AloneStep, Working, SawInv, PlaceInv, Lists, nextID
<1>8. JudgedInv'
  BY DEF JudgedInv, PlaceInv, PIDInv, PIDs, Lists, nextID
<1>9. UnlistedInv'
  BY DEF FreeStep, UnlistedInv, PIDs, Lists, nextID
<1>10. UnseenInv'
  BY DEF AloneStep, Working, PlaceInv, UnseenInv, UnlistedInv, Lists, nextID
<1> QED BY <1>1, <1>2, <1>3, <1>4, <1>5, <1>6, <1>7, <1>8, <1>9, <1>10

\* The temporary file is the writer's own, and so is what it renames.
LEMMA WritesKeepsInv ==
    ASSUME RegistryInv, TypeOK', RaceStep, NEW b \in Blocks, Writes(b)
    PROVE  RegistryInv'
<1> USE NamesFacts DEF RegistryInv, RaceStep, TypeOK, Goes, fileVars, cmdVars, pidVars
<1>1. SoleInv'
  BY DEF AloneStep, SoleInv
<1>2. PlaceInv'
  BY DEF PlaceInv, Writes, Opens, Fills, Renames, CannotRename, Written
<1>3. WriteInv'
  BY DEF AloneStep, Working, SoleInv, WriteInv, PlaceInv, Own, Writes, Opens, Fills,
       Renames, CannotRename, Written
<1>4. PIDInv'
  BY DEF PIDInv, Writes, Opens, Fills, Renames, CannotRename, Written
<1>5. OneInv'
  BY DEF AliveStep, AloneStep, OneInv, Started, Working, Alive, Writes, Opens, Fills,
       Renames, CannotRename, Written
<1>6. ListedInv'
  <2> SUFFICES ASSUME NEW e \in Blocks, (id[e] \notin raced)', at'[e] \in {"opened", "up"}
               PROVE  (fifo[id[e]] = e)' /\ (at'[e] = "up" => (path[id[e]] = e)')
    BY DEF ListedInv
  <2>1. id'[e] \in IDs /\ id'[e] \notin raced
    BY DEF AliveStep, Alive
  <2> QED BY <2>1 DEF ListedInv, OneInv, Started, WriteInv, Own, SawInv, JudgedInv,
       Writes, Opens, Fills, Renames, CannotRename, Written
<1>7. SawInv'
  <2> SUFFICES ASSUME NEW e \in Commands, at'[e] # "none", (id[e] \notin raced)'
               PROVE  (path[id[e]] = saw[e])'
    BY DEF SawInv
  <2>1. Working(e)'
    BY DEF Working, PlaceInv, Writes, Opens, Fills, Renames, CannotRename, Written
  <2>2. /\ id'[e] \in IDs /\ id'[e] \notin raced
        /\ \A x \in Actors : Working(x)' /\ (id[x] = id[e])' => x = e
    BY <2>1 DEF AloneStep
  <2> QED BY <2>2 DEF SoleInv, SawInv, PlaceInv, Working, WriteInv, Own, Writes, Opens,
       Fills, Renames, CannotRename, Written
<1>8. JudgedInv'
  BY DEF JudgedInv, PlaceInv, PIDInv, PIDs, Writes, Opens, Fills, Renames, CannotRename,
       Written
<1>9. UnlistedInv'
  <2> SUFFICES ASSUME NEW e \in Blocks, at'[e] = "unlisted" \/ e \in orderly', (id[e] \notin raced)'
               PROVE  (path[id[e]] # e)'
    BY DEF UnlistedInv, Writes, Opens, Fills, Renames, CannotRename, Written
  <2>1. id'[e] \in IDs /\ e \in PIDs
    OBVIOUS
  <2>2. CASE id'[e] \in raced
    BY <2>1, <2>2 DEF FreeStep
  <2>3. CASE id'[e] \notin raced
    BY <2>1, <2>3 DEF UnlistedInv, WriteInv, SawInv, UnseenInv, Own, Writes, Opens, Fills,
         Renames, CannotRename, Written
  <2> QED BY <2>2, <2>3
<1>10. UnseenInv'
  BY DEF AloneStep, Working, PlaceInv, UnseenInv, UnlistedInv, Writes, Opens, Fills,
       Renames, CannotRename, Written
<1> QED BY <1>1, <1>2, <1>3, <1>4, <1>5, <1>6, <1>7, <1>8, <1>9, <1>10

\* It touches nothing.
LEMMA ReadsKeepsInv ==
    ASSUME RegistryInv, TypeOK', RaceStep, NEW b \in Blocks, Reads(b)
    PROVE  RegistryInv'
<1> USE NamesFacts DEF RegistryInv, RaceStep, TypeOK, Goes, fileVars, cmdVars, pidVars
<1>1. SoleInv'
  BY DEF AloneStep, SoleInv
<1>2. PlaceInv'
  BY DEF PlaceInv, Reads
<1>3. WriteInv'
  BY DEF AloneStep, Working, SoleInv, WriteInv, PlaceInv, Own, Reads
<1>4. PIDInv'
  BY DEF PIDInv, Reads
<1>5. OneInv'
  BY DEF AliveStep, AloneStep, OneInv, Started, Working, Alive, Reads
<1>6. ListedInv'
  BY DEF AliveStep, Alive, ListedInv, Reads
<1>7. SawInv'
  BY DEF AloneStep, Working, SawInv, PlaceInv, Reads
<1>8. JudgedInv'
  BY DEF JudgedInv, PlaceInv, PIDInv, PIDs, Reads
<1>9. UnlistedInv'
  BY DEF FreeStep, UnlistedInv, PIDs, Reads
<1>10. UnseenInv'
  BY DEF AloneStep, Working, PlaceInv, UnseenInv, UnlistedInv, Reads
<1> QED BY <1>1, <1>2, <1>3, <1>4, <1>5, <1>6, <1>7, <1>8, <1>9, <1>10

\* No other block with this ID is past its FIFO.
LEMMA MakesFifoKeepsInv ==
    ASSUME RegistryInv, TypeOK', RaceStep, NEW b \in Blocks, MakesFifo(b)
    PROVE  RegistryInv'
<1> USE NamesFacts DEF RegistryInv, RaceStep, TypeOK, Goes, fileVars, cmdVars, pidVars
<1>1. SoleInv'
  BY DEF AloneStep, SoleInv
<1>2. PlaceInv'
  BY DEF PlaceInv, MakesFifo
<1>3. WriteInv'
  BY DEF AloneStep, Working, SoleInv, WriteInv, PlaceInv, Own, MakesFifo
<1>4. PIDInv'
  BY DEF PIDInv, MakesFifo
<1>5. OneInv'
  BY DEF AliveStep, AloneStep, OneInv, Started, Working, Alive, MakesFifo
<1>6. ListedInv'
  <2> SUFFICES ASSUME NEW e \in Blocks, (id[e] \notin raced)', at'[e] \in {"opened", "up"}
               PROVE  (fifo[id[e]] = e)' /\ (at'[e] = "up" => (path[id[e]] = e)')
    BY DEF ListedInv
  <2>1. id'[e] \in IDs /\ id'[e] \notin raced
    BY DEF AliveStep, Alive
  <2> QED BY <2>1 DEF ListedInv, OneInv, Started, WriteInv, Own, SawInv, JudgedInv,
       MakesFifo
<1>7. SawInv'
  BY DEF AloneStep, Working, SawInv, PlaceInv, MakesFifo
<1>8. JudgedInv'
  BY DEF JudgedInv, PlaceInv, PIDInv, PIDs, MakesFifo
<1>9. UnlistedInv'
  BY DEF FreeStep, UnlistedInv, PIDs, MakesFifo
<1>10. UnseenInv'
  BY DEF AloneStep, Working, PlaceInv, UnseenInv, UnlistedInv, MakesFifo
<1> QED BY <1>1, <1>2, <1>3, <1>4, <1>5, <1>6, <1>7, <1>8, <1>9, <1>10

\* It is opened only if it is its own.
LEMMA OpensFifoKeepsInv ==
    ASSUME RegistryInv, TypeOK', RaceStep, NEW b \in Blocks, OpensFifo(b)
    PROVE  RegistryInv'
<1> USE NamesFacts DEF RegistryInv, RaceStep, TypeOK, Goes, fileVars, cmdVars, pidVars
<1>1. SoleInv'
  BY DEF AloneStep, SoleInv
<1>2. PlaceInv'
  BY DEF PlaceInv, OpensFifo
<1>3. WriteInv'
  BY DEF AloneStep, Working, SoleInv, WriteInv, PlaceInv, Own, OpensFifo
<1>4. PIDInv'
  BY DEF PIDInv, OpensFifo
<1>5. OneInv'
  BY DEF AliveStep, AloneStep, OneInv, Started, Working, Alive, OpensFifo
<1>6. ListedInv'
  BY DEF AliveStep, Alive, ListedInv, OpensFifo
<1>7. SawInv'
  BY DEF AloneStep, Working, SawInv, PlaceInv, OpensFifo
<1>8. JudgedInv'
  BY DEF JudgedInv, PlaceInv, PIDInv, PIDs, OpensFifo
<1>9. UnlistedInv'
  BY DEF FreeStep, UnlistedInv, PIDs, OpensFifo
<1>10. UnseenInv'
  BY DEF AloneStep, Working, PlaceInv, UnseenInv, UnlistedInv, OpensFifo
<1> QED BY <1>1, <1>2, <1>3, <1>4, <1>5, <1>6, <1>7, <1>8, <1>9, <1>10

\* What it leaves is still of its PID, and that it is gone.
LEMMA DiesKeepsInv ==
    ASSUME RegistryInv, TypeOK', RaceStep, NEW b \in Blocks, Dies(b)
    PROVE  RegistryInv'
<1> USE NamesFacts DEF RegistryInv, RaceStep, TypeOK, Goes, fileVars, cmdVars, pidVars
<1>1. SoleInv'
  BY DEF AloneStep, SoleInv
<1>2. PlaceInv'
  BY DEF PlaceInv, Dies
<1>3. WriteInv'
  BY DEF AloneStep, Working, SoleInv, WriteInv, PlaceInv, Own, Dies
<1>4. PIDInv'
  BY DEF PIDInv, Dies
<1>5. OneInv'
  BY DEF AliveStep, AloneStep, OneInv, Started, Working, Alive, Dies
<1>6. ListedInv'
  BY DEF AliveStep, Alive, ListedInv, Dies
<1>7. SawInv'
  BY DEF AloneStep, Working, SawInv, PlaceInv, Dies
<1>8. JudgedInv'
  BY DEF JudgedInv, PlaceInv, PIDInv, PIDs, Dies
<1>9. UnlistedInv'
  BY DEF FreeStep, UnlistedInv, PIDs, Dies
<1>10. UnseenInv'
  BY DEF AloneStep, Working, PlaceInv, UnseenInv, UnlistedInv, Dies
<1> QED BY <1>1, <1>2, <1>3, <1>4, <1>5, <1>6, <1>7, <1>8, <1>9, <1>10

\* removeState of a block that failed meets no other block's file.
LEMMA GivesUpKeepsInv ==
    ASSUME RegistryInv, TypeOK', RaceStep, NEW b \in Blocks, GivesUp(b)
    PROVE  RegistryInv'
<1> USE NamesFacts DEF RegistryInv, RaceStep, TypeOK, Goes, fileVars, cmdVars, pidVars
<1>1. SoleInv'
  BY DEF AloneStep, SoleInv
<1>2. PlaceInv'
  BY DEF PlaceInv, GivesUp, Unlinks
<1>3. WriteInv'
  BY DEF AloneStep, Working, SoleInv, WriteInv, PlaceInv, Own, GivesUp, Unlinks
<1>4. PIDInv'
  BY DEF PIDInv, GivesUp, Unlinks
<1>5. OneInv'
  BY DEF AliveStep, AloneStep, OneInv, Started, Working, Alive, GivesUp, Unlinks
<1>6. ListedInv'
  <2> SUFFICES ASSUME NEW e \in Blocks, (id[e] \notin raced)', at'[e] \in {"opened", "up"}
               PROVE  (fifo[id[e]] = e)' /\ (at'[e] = "up" => (path[id[e]] = e)')
    BY DEF ListedInv
  <2>1. id'[e] \in IDs /\ id'[e] \notin raced
    BY DEF AliveStep, Alive
  <2> QED BY <2>1 DEF ListedInv, OneInv, Started, WriteInv, Own, SawInv, JudgedInv,
       GivesUp, Unlinks
<1>7. SawInv'
  <2> SUFFICES ASSUME NEW e \in Commands, at'[e] # "none", (id[e] \notin raced)'
               PROVE  (path[id[e]] = saw[e])'
    BY DEF SawInv
  <2>1. Working(e)'
    BY DEF Working, PlaceInv, GivesUp, Unlinks
  <2>2. /\ id'[e] \in IDs /\ id'[e] \notin raced
        /\ \A x \in Actors : Working(x)' /\ (id[x] = id[e])' => x = e
    BY <2>1 DEF AloneStep
  <2> QED BY <2>2 DEF SoleInv, SawInv, PlaceInv, Working, WriteInv, Own, GivesUp, Unlinks
<1>8. JudgedInv'
  BY DEF JudgedInv, PlaceInv, PIDInv, PIDs, GivesUp, Unlinks
<1>9. UnlistedInv'
  BY DEF FreeStep, UnlistedInv, PIDs, GivesUp, Unlinks
<1>10. UnseenInv'
  BY DEF AloneStep, Working, PlaceInv, UnseenInv, UnlistedInv, GivesUp, Unlinks
<1> QED BY <1>1, <1>2, <1>3, <1>4, <1>5, <1>6, <1>7, <1>8, <1>9, <1>10

\* It touches nothing.
LEMMA EndsKeepsInv ==
    ASSUME RegistryInv, TypeOK', RaceStep, NEW b \in Blocks, Ends(b)
    PROVE  RegistryInv'
<1> USE NamesFacts DEF RegistryInv, RaceStep, TypeOK, Goes, fileVars, cmdVars, pidVars
<1>1. SoleInv'
  BY DEF AloneStep, SoleInv
<1>2. PlaceInv'
  BY DEF PlaceInv, Ends
<1>3. WriteInv'
  BY DEF AloneStep, Working, SoleInv, WriteInv, PlaceInv, Own, Ends
<1>4. PIDInv'
  BY DEF PIDInv, Ends
<1>5. OneInv'
  BY DEF AliveStep, AloneStep, OneInv, Started, Working, Alive, Ends
<1>6. ListedInv'
  BY DEF AliveStep, Alive, ListedInv, Ends
<1>7. SawInv'
  BY DEF AloneStep, Working, SawInv, PlaceInv, Ends
<1>8. JudgedInv'
  BY DEF JudgedInv, PlaceInv, PIDInv, PIDs, Ends
<1>9. UnlistedInv'
  BY DEF FreeStep, UnlistedInv, PIDs, Ends
<1>10. UnseenInv'
  BY DEF AloneStep, Working, PlaceInv, UnseenInv, UnlistedInv, Ends
<1> QED BY <1>1, <1>2, <1>3, <1>4, <1>5, <1>6, <1>7, <1>8, <1>9, <1>10

\* The file is its own.
LEMMA RemovesStateKeepsInv ==
    ASSUME RegistryInv, TypeOK', RaceStep, NEW b \in Blocks, RemovesState(b)
    PROVE  RegistryInv'
<1> USE NamesFacts DEF RegistryInv, RaceStep, TypeOK, Goes, fileVars, cmdVars, pidVars
<1>1. SoleInv'
  BY DEF AloneStep, SoleInv
<1>2. PlaceInv'
  BY DEF PlaceInv, RemovesState, Unlinks
<1>3. WriteInv'
  BY DEF AloneStep, Working, SoleInv, WriteInv, PlaceInv, Own, RemovesState, Unlinks
<1>4. PIDInv'
  BY DEF PIDInv, RemovesState, Unlinks
<1>5. OneInv'
  BY DEF AliveStep, AloneStep, OneInv, Started, Working, Alive, RemovesState, Unlinks
<1>6. ListedInv'
  <2> SUFFICES ASSUME NEW e \in Blocks, (id[e] \notin raced)', at'[e] \in {"opened", "up"}
               PROVE  (fifo[id[e]] = e)' /\ (at'[e] = "up" => (path[id[e]] = e)')
    BY DEF ListedInv
  <2>1. id'[e] \in IDs /\ id'[e] \notin raced
    BY DEF AliveStep, Alive
  <2> QED BY <2>1 DEF ListedInv, OneInv, Started, WriteInv, Own, SawInv, JudgedInv,
       RemovesState, Unlinks
<1>7. SawInv'
  BY DEF AloneStep, Working, SawInv, PlaceInv, RemovesState, Unlinks
<1>8. JudgedInv'
  BY DEF JudgedInv, PlaceInv, PIDInv, PIDs, RemovesState, Unlinks
<1>9. UnlistedInv'
  BY DEF FreeStep, UnlistedInv, PIDs, RemovesState, Unlinks
<1>10. UnseenInv'
  BY DEF AloneStep, Working, PlaceInv, UnseenInv, UnlistedInv, RemovesState, Unlinks
<1> QED BY <1>1, <1>2, <1>3, <1>4, <1>5, <1>6, <1>7, <1>8, <1>9, <1>10

\* After it no file has its PID, and no command does.
LEMMA RemovesFifoKeepsInv ==
    ASSUME RegistryInv, TypeOK', RaceStep, NEW b \in Blocks, RemovesFifo(b)
    PROVE  RegistryInv'
<1> USE NamesFacts DEF RegistryInv, RaceStep, TypeOK, Goes, fileVars, cmdVars, pidVars
<1>1. SoleInv'
  BY DEF AloneStep, SoleInv
<1>2. PlaceInv'
  BY DEF PlaceInv, RemovesFifo
<1>3. WriteInv'
  BY DEF AloneStep, Working, SoleInv, WriteInv, PlaceInv, Own, RemovesFifo
<1>4. PIDInv'
  BY DEF PIDInv, RemovesFifo
<1>5. OneInv'
  BY DEF AliveStep, AloneStep, OneInv, Started, Working, Alive, RemovesFifo
<1>6. ListedInv'
  <2> SUFFICES ASSUME NEW e \in Blocks, (id[e] \notin raced)', at'[e] \in {"opened", "up"}
               PROVE  (fifo[id[e]] = e)' /\ (at'[e] = "up" => (path[id[e]] = e)')
    BY DEF ListedInv
  <2>1. id'[e] \in IDs /\ id'[e] \notin raced
    BY DEF AliveStep, Alive
  <2> QED BY <2>1 DEF ListedInv, OneInv, Started, WriteInv, Own, SawInv, JudgedInv,
       RemovesFifo
<1>7. SawInv'
  BY DEF AloneStep, Working, SawInv, PlaceInv, RemovesFifo
<1>8. JudgedInv'
  BY DEF JudgedInv, PlaceInv, PIDInv, PIDs, RemovesFifo
<1>9. UnlistedInv'
  BY DEF FreeStep, UnlistedInv, PIDs, RemovesFifo
<1>10. UnseenInv'
  <2> SUFFICES ASSUME NEW e \in orderly', (id[e] \notin raced)', NEW x \in Commands, at'[x] # "none", (id[x] = id[e])'
               PROVE  saw'[x] # e
    BY DEF UnseenInv
  <2>1. e \in Blocks /\ Working(x)'
    BY DEF Working, PlaceInv, RemovesFifo
  <2>2. id'[x] \notin raced
    BY <2>1 DEF AloneStep
  <2> QED BY <2>1, <2>2 DEF UnseenInv, UnlistedInv, SawInv, RemovesFifo
<1> QED BY <1>1, <1>2, <1>3, <1>4, <1>5, <1>6, <1>7, <1>8, <1>9, <1>10

\* It touches nothing.
LEMMA PIDTakenKeepsInv ==
    ASSUME RegistryInv, TypeOK', RaceStep, NEW b \in Blocks, PIDTaken(b)
    PROVE  RegistryInv'
<1> USE NamesFacts DEF RegistryInv, RaceStep, TypeOK, Goes, fileVars, cmdVars, pidVars
<1>1. SoleInv'
  BY DEF AloneStep, SoleInv
<1>2. PlaceInv'
  BY DEF PlaceInv, PIDTaken
<1>3. WriteInv'
  BY DEF AloneStep, Working, SoleInv, WriteInv, PlaceInv, Own, PIDTaken
<1>4. PIDInv'
  BY DEF PIDInv, PIDTaken
<1>5. OneInv'
  BY DEF AliveStep, AloneStep, OneInv, Started, Working, Alive, PIDTaken
<1>6. ListedInv'
  BY DEF AliveStep, Alive, ListedInv, PIDTaken
<1>7. SawInv'
  BY DEF AloneStep, Working, SawInv, PlaceInv, PIDTaken
<1>8. JudgedInv'
  BY DEF JudgedInv, PlaceInv, PIDInv, PIDs, PIDTaken
<1>9. UnlistedInv'
  BY DEF FreeStep, UnlistedInv, PIDs, PIDTaken
<1>10. UnseenInv'
  BY DEF AloneStep, Working, PlaceInv, UnseenInv, UnlistedInv, PIDTaken
<1> QED BY <1>1, <1>2, <1>3, <1>4, <1>5, <1>6, <1>7, <1>8, <1>9, <1>10

\* What it reads is not of a block that has ended in order.
LEMMA CmdReadsKeepsInv ==
    ASSUME RegistryInv, TypeOK', RaceStep, NEW c \in Commands, CmdReads(c)
    PROVE  RegistryInv'
<1> USE NamesFacts DEF RegistryInv, RaceStep, TypeOK, Goes, fileVars, cmdVars, pidVars
<1>1. SoleInv'
  BY DEF AloneStep, SoleInv
<1>2. PlaceInv'
  BY DEF PlaceInv, CmdReads, Readable
<1>3. WriteInv'
  BY DEF AloneStep, Working, SoleInv, WriteInv, PlaceInv, Own, CmdReads, Readable
<1>4. PIDInv'
  BY DEF PIDInv, CmdReads, Readable
<1>5. OneInv'
  BY DEF AliveStep, AloneStep, OneInv, Started, Working, Alive, CmdReads, Readable
<1>6. ListedInv'
  BY DEF AliveStep, Alive, ListedInv, CmdReads, Readable
<1>7. SawInv'
  BY DEF AloneStep, Working, SawInv, PlaceInv, CmdReads, Readable
<1>8. JudgedInv'
  BY DEF JudgedInv, PlaceInv, PIDInv, PIDs, CmdReads, Readable
<1>9. UnlistedInv'
  BY DEF FreeStep, UnlistedInv, PIDs, CmdReads, Readable
<1>10. UnseenInv'
  BY DEF AloneStep, Working, PlaceInv, UnseenInv, UnlistedInv, CmdReads, Readable
<1> QED BY <1>1, <1>2, <1>3, <1>4, <1>5, <1>6, <1>7, <1>8, <1>9, <1>10

\* It judges of what is still so.
LEMMA CmdJudgesKeepsInv ==
    ASSUME RegistryInv, TypeOK', RaceStep, NEW c \in Commands, CmdJudges(c)
    PROVE  RegistryInv'
<1> USE NamesFacts DEF RegistryInv, RaceStep, TypeOK, Goes, fileVars, cmdVars, pidVars
<1>1. SoleInv'
  BY DEF AloneStep, SoleInv
<1>2. PlaceInv'
  BY DEF PlaceInv, CmdJudges, processExists, Alive, Forgets
<1>3. WriteInv'
  BY DEF AloneStep, Working, SoleInv, WriteInv, PlaceInv, Own, CmdJudges, processExists,
       Alive, Forgets
<1>4. PIDInv'
  BY DEF PIDInv, CmdJudges, processExists, Alive, Forgets
<1>5. OneInv'
  BY DEF AliveStep, AloneStep, OneInv, Started, Working, Alive, CmdJudges, processExists,
       Alive, Forgets
<1>6. ListedInv'
  BY DEF AliveStep, Alive, ListedInv, CmdJudges, processExists, Alive, Forgets
<1>7. SawInv'
  BY DEF AloneStep, Working, SawInv, PlaceInv, CmdJudges, processExists, Alive, Forgets
<1>8. JudgedInv'
  BY DEF JudgedInv, PlaceInv, PIDInv, PIDs, CmdJudges, processExists, Alive, Forgets
<1>9. UnlistedInv'
  BY DEF FreeStep, UnlistedInv, PIDs, CmdJudges, processExists, Alive, Forgets
<1>10. UnseenInv'
  BY DEF AloneStep, Working, PlaceInv, UnseenInv, UnlistedInv, CmdJudges, processExists,
       Alive, Forgets
<1> QED BY <1>1, <1>2, <1>3, <1>4, <1>5, <1>6, <1>7, <1>8, <1>9, <1>10

\* What it takes for dead is the file's block, and that is not up.
LEMMA CmdCleansUpKeepsInv ==
    ASSUME RegistryInv, TypeOK', RaceStep, NEW c \in Commands, CmdCleansUp(c)
    PROVE  RegistryInv'
<1> USE NamesFacts DEF RegistryInv, RaceStep, TypeOK, Goes, fileVars, cmdVars, pidVars
<1>1. SoleInv'
  BY DEF AloneStep, SoleInv
<1>2. PlaceInv'
  BY DEF PlaceInv, CmdCleansUp, Unlinks, Forgets
<1>3. WriteInv'
  BY DEF AloneStep, Working, SoleInv, WriteInv, PlaceInv, Own, CmdCleansUp, Unlinks,
       Forgets
<1>4. PIDInv'
  BY DEF PIDInv, CmdCleansUp, Unlinks, Forgets
<1>5. OneInv'
  BY DEF AliveStep, AloneStep, OneInv, Started, Working, Alive, CmdCleansUp, Unlinks,
       Forgets
<1>6. ListedInv'
  <2> SUFFICES ASSUME NEW e \in Blocks, (id[e] \notin raced)', at'[e] \in {"opened", "up"}
               PROVE  (fifo[id[e]] = e)' /\ (at'[e] = "up" => (path[id[e]] = e)')
    BY DEF ListedInv
  <2>1. id'[e] \in IDs /\ id'[e] \notin raced
    BY DEF AliveStep, Alive
  <2>2. at'[e] = at[e] /\ id'[e] = id[e] /\ at[c] = "stale"
    BY DEF CmdCleansUp, Forgets
  <2>3. CASE id[e] = id[c]
    <3>1. at[e] = "up"
      BY <2>1, <2>2, <2>3 DEF SoleInv, Working
    <3>2. path[id[c]] = e /\ path[id[c]] = saw[c]
      BY <2>1, <2>2, <2>3, <3>1 DEF ListedInv, SawInv
    <3> QED BY <2>2, <3>1, <3>2 DEF JudgedInv
  <2>4. CASE id[e] # id[c]
    BY <2>1, <2>2, <2>4 DEF ListedInv, CmdCleansUp, Unlinks
  <2> QED BY <2>3, <2>4
<1>7. SawInv'
  <2> SUFFICES ASSUME NEW e \in Commands, at'[e] # "none", (id[e] \notin raced)'
               PROVE  (path[id[e]] = saw[e])'
    BY DEF SawInv
  <2>1. Working(e)'
    BY DEF Working, PlaceInv, CmdCleansUp, Unlinks, Forgets
  <2>2. /\ id'[e] \in IDs /\ id'[e] \notin raced
        /\ \A x \in Actors : Working(x)' /\ (id[x] = id[e])' => x = e
    BY <2>1 DEF AloneStep
  <2> QED BY <2>2 DEF SoleInv, SawInv, PlaceInv, Working, WriteInv, Own, CmdCleansUp,
       Unlinks, Forgets
<1>8. JudgedInv'
  BY DEF JudgedInv, PlaceInv, PIDInv, PIDs, CmdCleansUp, Unlinks, Forgets
<1>9. UnlistedInv'
  BY DEF FreeStep, UnlistedInv, PIDs, CmdCleansUp, Unlinks, Forgets
<1>10. UnseenInv'
  BY DEF AloneStep, Working, PlaceInv, UnseenInv, UnlistedInv, CmdCleansUp, Unlinks,
       Forgets
<1> QED BY <1>1, <1>2, <1>3, <1>4, <1>5, <1>6, <1>7, <1>8, <1>9, <1>10

\* It writes back the PID that is still there.
LEMMA ExtendWritesKeepsInv ==
    ASSUME RegistryInv, TypeOK', RaceStep, NEW c \in Commands, ExtendWrites(c)
    PROVE  RegistryInv'
<1> USE NamesFacts DEF RegistryInv, RaceStep, TypeOK, Goes, fileVars, cmdVars, pidVars
<1>1. SoleInv'
  BY DEF AloneStep, SoleInv
<1>2. PlaceInv'
  BY DEF PlaceInv, ExtendWrites, Opens, Fills, Renames, CannotRename, Written, Forgets
<1>3. WriteInv'
  <2> SUFFICES ASSUME NEW e \in Actors, fd'[e] # "none"
               PROVE  /\ at'[e] \in {"listed", "opened", "active"}
                      /\ at'[e] = "active" => op'[e] = "extend"
                      /\ (id[e] \notin raced)' =>
                           /\ fd'[e] \in {"tmp", "closed"}
                           /\ (tmp[id[e]] = IF fd[e] = "tmp" THEN Half ELSE Own(e))'
    BY DEF WriteInv
  <2>1. at'[e] \in {"listed", "opened", "active"} /\ (at'[e] = "active" => op'[e] = "extend")
    <3>1. CASE e = c
      <4>1. (Opens(c) \/ Fills(c, saw[c])) /\ UNCHANGED <<at, id, cmdVars>>
        BY <3>1 DEF ExtendWrites, Renames, CannotRename
      <4> QED BY <3>1, <4>1 DEF ExtendWrites
    <3>2. CASE e # c
      <4>1. fd[e] # "none"
        BY <3>2 DEF ExtendWrites, Opens, Fills, Renames, CannotRename
      <4>2. at'[e] = at[e] /\ (e \in Commands => op'[e] = op[e])
        BY <3>2 DEF ExtendWrites, Forgets
      <4>3. e \in Blocks => at[e] # "active"
        BY DEF PlaceInv
      <4> QED BY <4>1, <4>2, <4>3 DEF WriteInv, Actors
    <3> QED BY <3>1, <3>2
  <2>2. ASSUME (id[e] \notin raced)'
        PROVE  /\ fd'[e] \in {"tmp", "closed"}
               /\ (tmp[id[e]] = IF fd[e] = "tmp" THEN Half ELSE Own(e))'
    <3>1. /\ id'[e] \in IDs /\ id'[e] \notin raced
          /\ \A x \in Actors : Working(x)' /\ (id[x] = id[e])' => x = e
      BY <2>1, <2>2 DEF AloneStep, Working
    <3> QED BY <2>1, <3>1 DEF SoleInv, WriteInv, PlaceInv, Own, Working, ExtendWrites,
         Opens, Fills, Renames, CannotRename, Written, Forgets
  <2> QED BY <2>1, <2>2
<1>4. PIDInv'
  BY DEF PIDInv, ExtendWrites, Opens, Fills, Renames, CannotRename, Written, Forgets
<1>5. OneInv'
  BY DEF AliveStep, AloneStep, OneInv, Started, Working, Alive, ExtendWrites, Opens,
       Fills, Renames, CannotRename, Written, Forgets
<1>6. ListedInv'
  <2> SUFFICES ASSUME NEW e \in Blocks, (id[e] \notin raced)', at'[e] \in {"opened", "up"}
               PROVE  (fifo[id[e]] = e)' /\ (at'[e] = "up" => (path[id[e]] = e)')
    BY DEF ListedInv
  <2>1. id'[e] \in IDs /\ id'[e] \notin raced
    BY DEF AliveStep, Alive
  <2> QED BY <2>1 DEF ListedInv, OneInv, Started, WriteInv, Own, SawInv, JudgedInv,
       ExtendWrites, Opens, Fills, Renames, CannotRename, Written, Forgets
<1>7. SawInv'
  <2> SUFFICES ASSUME NEW e \in Commands, at'[e] # "none", (id[e] \notin raced)'
               PROVE  (path[id[e]] = saw[e])'
    BY DEF SawInv
  <2>1. Working(e)'
    BY DEF Working, PlaceInv, ExtendWrites, Opens, Fills, Renames, CannotRename, Written,
         Forgets
  <2>2. /\ id'[e] \in IDs /\ id'[e] \notin raced
        /\ \A x \in Actors : Working(x)' /\ (id[x] = id[e])' => x = e
    BY <2>1 DEF AloneStep
  <2> QED BY <2>2 DEF SoleInv, SawInv, PlaceInv, Working, WriteInv, Own, ExtendWrites,
       Opens, Fills, Renames, CannotRename, Written, Forgets
<1>8. JudgedInv'
  BY DEF JudgedInv, PlaceInv, PIDInv, PIDs, ExtendWrites, Opens, Fills, Renames,
       CannotRename, Written, Forgets
<1>9. UnlistedInv'
  <2> SUFFICES ASSUME NEW e \in Blocks, at'[e] = "unlisted" \/ e \in orderly', (id[e] \notin raced)'
               PROVE  (path[id[e]] # e)'
    BY DEF UnlistedInv, ExtendWrites, Opens, Fills, Renames, CannotRename, Written,
         Forgets
  <2>1. id'[e] \in IDs /\ e \in PIDs
    OBVIOUS
  <2>2. CASE id'[e] \in raced
    BY <2>1, <2>2 DEF FreeStep
  <2>3. CASE id'[e] \notin raced
    BY <2>1, <2>3 DEF UnlistedInv, WriteInv, SawInv, UnseenInv, Own, ExtendWrites, Opens,
         Fills, Renames, CannotRename, Written, Forgets
  <2> QED BY <2>2, <2>3
<1>10. UnseenInv'
  BY DEF AloneStep, Working, PlaceInv, UnseenInv, UnlistedInv, ExtendWrites, Opens, Fills,
       Renames, CannotRename, Written, Forgets
<1> QED BY <1>1, <1>2, <1>3, <1>4, <1>5, <1>6, <1>7, <1>8, <1>9, <1>10

\* A block that is up may be on its way out after it.
LEMMA CmdSignalsKeepsInv ==
    ASSUME RegistryInv, TypeOK', RaceStep, NEW c \in Commands, CmdSignals(c)
    PROVE  RegistryInv'
<1> USE NamesFacts DEF RegistryInv, RaceStep, TypeOK, Goes, fileVars, cmdVars, pidVars
<1>1. SoleInv'
  BY DEF AloneStep, SoleInv
<1>2. PlaceInv'
  BY DEF PlaceInv, CmdSignals, Forgets
<1>3. WriteInv'
  BY DEF AloneStep, Working, SoleInv, WriteInv, PlaceInv, Own, CmdSignals, Forgets
<1>4. PIDInv'
  BY DEF PIDInv, CmdSignals, Forgets
<1>5. OneInv'
  BY DEF AliveStep, AloneStep, OneInv, Started, Working, Alive, CmdSignals, Forgets
<1>6. ListedInv'
  BY DEF AliveStep, Alive, ListedInv, CmdSignals, Forgets
<1>7. SawInv'
  BY DEF AloneStep, Working, SawInv, PlaceInv, CmdSignals, Forgets
<1>8. JudgedInv'
  BY DEF JudgedInv, PlaceInv, PIDInv, PIDs, CmdSignals, Forgets
<1>9. UnlistedInv'
  BY DEF FreeStep, UnlistedInv, PIDs, CmdSignals, Forgets
<1>10. UnseenInv'
  BY DEF AloneStep, Working, PlaceInv, UnseenInv, UnlistedInv, CmdSignals, Forgets
<1> QED BY <1>1, <1>2, <1>3, <1>4, <1>5, <1>6, <1>7, <1>8, <1>9, <1>10

\* Nothing has started and nothing is there.
LEMMA InitRegistryInv == Init => RegistryInv
<1> SUFFICES ASSUME Init PROVE RegistryInv
  OBVIOUS
<1> USE NamesFacts DEF Init
<1>1. TypeOK
  BY DEF TypeOK
<1>2. SoleInv /\ PlaceInv /\ WriteInv
  BY DEF SoleInv, PlaceInv, WriteInv, Working, Actors
<1>3. PIDInv /\ OneInv /\ ListedInv
  BY DEF PIDInv, OneInv, ListedInv, Started
<1>4. SawInv /\ JudgedInv /\ UnlistedInv /\ UnseenInv
  BY DEF SawInv, JudgedInv, UnlistedInv, UnseenInv
<1> QED BY <1>1, <1>2, <1>3, <1>4 DEF RegistryInv

\* The invariant is inductive.
LEMMA NextKeepsRegistryInv == RegistryInv /\ [Next]_vars => RegistryInv'
<1> SUFFICES ASSUME RegistryInv, [Next]_vars PROVE RegistryInv'
  OBVIOUS
<1>1. CASE UNCHANGED vars
  BY <1>1 DEF vars, fileVars, cmdVars, pidVars, RegistryInv, TypeOK, SoleInv, PlaceInv, WriteInv,
              PIDInv, OneInv, ListedInv, SawInv, JudgedInv, UnlistedInv, UnseenInv,
              Working, Started, Own
<1>2. ASSUME NotesRaces, NEW b \in Blocks, BlockStep(b) PROVE RegistryInv'
  <2>1. TypeOK'
    BY <1>2, BlockTypes DEF RegistryInv
  <2>2. RaceStep
    BY <1>2, <2>1, NotesRaceStep
  <2> QED BY <1>2, <2>1, <2>2, ListsKeepsInv, WritesKeepsInv, ReadsKeepsInv, MakesFifoKeepsInv,
             OpensFifoKeepsInv, DiesKeepsInv, GivesUpKeepsInv, EndsKeepsInv,
             RemovesStateKeepsInv, RemovesFifoKeepsInv, PIDTakenKeepsInv DEF BlockStep
<1>3. ASSUME NotesRaces, NEW c \in Commands, CommandStep(c) PROVE RegistryInv'
  <2>1. TypeOK'
    BY <1>3, CommandTypes DEF RegistryInv
  <2>2. RaceStep
    BY <1>3, <2>1, NotesRaceStep
  <2> QED BY <1>3, <2>1, <2>2, CmdReadsKeepsInv, CmdJudgesKeepsInv, CmdCleansUpKeepsInv,
             ExtendWritesKeepsInv, CmdSignalsKeepsInv DEF CommandStep
<1> QED BY <1>1, <1>2, <1>3 DEF Next

\* Where no two operations overlap, the files, the blocks and what the commands
\* know of both agree: state.go and its callers as a whole.
THEOREM RegistryInvariant == Spec => []RegistryInv
<1> QED BY InitRegistryInv, NextKeepsRegistryInv, PTL DEF Spec

\* The files and the processes of state.go are of their types.
THEOREM RegistryTypes == Spec => []TypeOK
<1>1. RegistryInv => TypeOK
  BY DEF RegistryInv
<1> QED BY <1>1, RegistryInvariant, PTL

\* README.md:419: for any number of blocks, two that live have two IDs, unless
\* operations have overlapped on one.
THEOREM BlocksHaveTheirIDs == Spec => []OneBlockPerID
<1>1. RegistryInv => OneBlockPerID
  BY DEF RegistryInv, OneInv, OneBlockPerID, Started, Alive
<1> QED BY <1>1, RegistryInvariant, PTL

\* state.go:77, README.md:421: a block that is up is found by its files.
THEOREM BlocksAreListed == Spec => []BlockIsListed
<1>1. RegistryInv => BlockIsListed
  BY DEF RegistryInv, ListedInv, BlockIsListed
<1> QED BY <1>1, RegistryInvariant, PTL

\* main.go:385, 436: no command signals a PID whose block has ended in order.
THEOREM SignalsOnlyBlocks == Spec => []SignalsHitBlocks
<1>1. ASSUME RegistryInv PROVE SignalsHitBlocks
  <2> SUFFICES ASSUME NEW c \in Commands, at[c] \in {"active", "wrote"}, saw[c] \in orderly,
                      id[c] \notin raced
               PROVE  FALSE
    BY DEF SignalsHitBlocks
  <2>1. saw[c] \in Blocks /\ id[saw[c]] = id[c]
    BY <1>1 DEF RegistryInv, TypeOK, PIDInv
  <2> QED BY <1>1, <2>1 DEF RegistryInv, UnseenInv
<1> QED BY <1>1, RegistryInvariant, PTL

=============================================================================
