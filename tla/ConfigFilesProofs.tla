-------------------------- MODULE ConfigFilesProofs ---------------------------
(***************************************************************************)
(* Proofs about ConfigFiles, for any files that include each other in any  *)
(* way.                                                                    *)
(***************************************************************************)
EXTENDS ConfigFiles, FiniteSetTheorems, SequenceTheorems, WellFoundedInduction, TLAPS

\* Inside the loop there is a current call, and its next name has a path.
LEMMA CurrentCall ==
  ASSUME TypeOK, pc = "loop", Len(calls) # 0
  PROVE  /\ Len(calls) \in Nat \ {0} /\ Current \in Call
         /\ AtName => NextPath \in Path /\ NextPath \in AheadOf(Current)
<1>1. Len(calls) \in Nat \ {0} /\ Current \in Call
  BY DEF TypeOK, Current
<1>2. ASSUME AtName PROVE NextPath \in Path /\ NextPath \in AheadOf(Current)
  <2>1. Current.at \in 1 .. Len(Current.names)
    BY <1>1, <1>2 DEF AtName, Call
  <2>2. Current.names[Current.at] \in Name /\ Current.dir \in Dir
    BY <1>1, <2>1 DEF Call
  <2>3. NextPath \in Path
    BY <2>2, PathAssumption DEF NextPath
  <2>4. Current.at \in Current.at .. Len(Current.names)
    BY <1>1, <2>1 DEF Call
  <2> QED BY <2>3, <2>4 DEF NextPath, AheadOf
<1> QED BY <1>1, <1>2

\* Returning drops the last call and keeps the others (the C++ call stack).
LEMMA CallersRemain ==
  ASSUME TypeOK, Len(calls) # 0, calls' = SubSeq(calls, 1, Len(calls) - 1)
  PROVE  /\ calls' \in Seq(Call)
         /\ Len(calls) \in Nat \ {0} /\ Len(calls') = Len(calls) - 1
         /\ \A c \in 1 .. Len(calls) - 1 : calls'[c] = calls[c]
<1>1. Len(calls) \in Nat \ {0} /\ \A c \in 1 .. Len(calls) : calls[c] \in Call
  BY DEF TypeOK
<1>2. \A c \in 1 .. Len(calls) - 1 : calls[c] \in Call
  BY <1>1
<1>3. Len(calls) - 1 \in Int /\ 1 \in Int
  BY <1>1
<1> DEFINE n == Len(calls) - 1
<1>4. /\ SubSeq(calls, 1, n) \in Seq(Call)
      /\ Len(SubSeq(calls, 1, n)) = IF 1 <= n THEN n - 1 + 1 ELSE 0
      /\ \A i \in 1 .. n - 1 + 1 : SubSeq(calls, 1, n)[i] = calls[1 + i - 1]
  BY <1>2, <1>3, SubSeqProperties
<1>5. n \in Nat
  BY <1>1
<1> HIDE DEF n
<1>6. Len(SubSeq(calls, 1, n)) = n
  BY <1>4, <1>5
<1>7. ASSUME NEW c \in 1 .. n PROVE SubSeq(calls, 1, n)[c] = calls[c]
  <2>1. c \in 1 .. n - 1 + 1 /\ 1 + c - 1 = c
    BY <1>5
  <2> QED BY <1>4, <2>1
<1> QED BY <1>1, <1>4, <1>6, <1>7 DEF n

\* Going on to the next name changes the position of the current call only.
LEMMA AdvanceCalls ==
  ASSUME TypeOK, Len(calls) # 0, Advance
  PROVE  /\ calls' \in Seq(Call) /\ Len(calls') = Len(calls) /\ Len(calls) \in Nat \ {0}
         /\ \A c \in 1 .. Len(calls) : c # Len(calls) => calls'[c] = calls[c]
         /\ calls'[Len(calls)] = [Current EXCEPT !.at = @ + 1]
<1>1. Len(calls) \in 1 .. Len(calls) /\ calls[Len(calls)] \in Call
  BY DEF TypeOK
<1> DEFINE next == [calls[Len(calls)] EXCEPT !.at = @ + 1]
<1>2. next \in Call
  BY <1>1 DEF Call
<1>3. calls' = [calls EXCEPT ![Len(calls)] = next]
  BY DEF Advance
<1> HIDE DEF next
<1>4. calls' \in Seq(Call) /\ Len(calls') = Len(calls)
  BY <1>1, <1>2, <1>3 DEF TypeOK
<1>5. calls'[Len(calls)] = next
  BY <1>1, <1>3 DEF TypeOK
<1>6. \A c \in 1 .. Len(calls) : c # Len(calls) => calls'[c] = calls[c]
  BY <1>1, <1>3 DEF TypeOK
<1>7. Len(calls) \in Nat \ {0}
  BY <1>1
<1> QED BY <1>4, <1>5, <1>6, <1>7 DEF Current, next

(***************************************************************************)
(* Type correctness.                                                       *)
(***************************************************************************)
LEMMA InitType == Init => TypeOK
  BY PathAssumption, ContentsAssumption DEF Init, TypeOK

\* Every step of the processing keeps the types.
LEMMA NextType == TypeOK /\ ListIsConsumed /\ [Next]_vars => TypeOK'
<1> SUFFICES ASSUME TypeOK, ListIsConsumed, [Next]_vars PROVE TypeOK'
  OBVIOUS
<1>1. CASE CallProcess
  <2>1. [dir |-> callDir, names |-> configFile, at |-> 1] \in Call
    BY DEF TypeOK, Call
  <2>2. <<>> \in Seq(Name)
    OBVIOUS
  <2> QED BY <1>1, <2>1, <2>2 DEF CallProcess, TypeOK
<1>2. CASE SkipFile
  BY <1>2, AdvanceCalls DEF SkipFile, TypeOK, ListIsConsumed
<1>3. CASE ProcessFile
  <2>1. NextPath \in Path
    BY <1>3, CurrentCall DEF ProcessFile, ListIsConsumed
  <2>2. content[NextPath] \in Seq(Name)
    BY <1>3, <2>1 DEF ProcessFile, TypeOK
  <2>3. /\ processed' \subseteq Path /\ applied' \in Seq(Path)
        /\ configFile' \in Seq(Name) /\ callDir' \in Dir
    BY <1>3, <2>1, <2>2, PathAssumption DEF ProcessFile, TypeOK
  <2> QED BY <1>3, <2>3, AdvanceCalls DEF ProcessFile, TypeOK, ListIsConsumed
<1>4. CASE RejectFile
  <2>1. NextPath \in Path
    BY <1>4, CurrentCall DEF RejectFile, ListIsConsumed
  <2> QED BY <1>4, <2>1 DEF RejectFile, TypeOK
<1>5. CASE ReturnFromProcess
  <2>1. calls' \in Seq(Call)
    BY <1>5, CallersRemain DEF ReturnFromProcess, ListIsConsumed
  <2> QED BY <1>5, <2>1 DEF ReturnFromProcess, TypeOK
<1>6. CASE UNCHANGED vars
  BY <1>6 DEF vars, TypeOK
<1> QED BY <1>1, <1>2, <1>3, <1>4, <1>5, <1>6 DEF Next

\* The shared list is empty whenever a loop runs, so no call sees another's names.
LEMMA NextConsumes == TypeOK /\ ListIsConsumed /\ [Next]_vars => ListIsConsumed'
<1> SUFFICES ASSUME TypeOK, ListIsConsumed, [Next]_vars PROVE ListIsConsumed'
  OBVIOUS
<1>1. CASE CallProcess
  BY <1>1 DEF CallProcess, ListIsConsumed, TypeOK
<1>2. CASE SkipFile
  <2>1. Len(calls') # 0
    BY <1>2, AdvanceCalls DEF SkipFile, ListIsConsumed
  <2> QED BY <1>2, <2>1 DEF SkipFile, ListIsConsumed
<1>3. CASE ProcessFile \/ RejectFile
  BY <1>3 DEF ProcessFile, RejectFile, ListIsConsumed
<1>4. CASE ReturnFromProcess
  <2>1. Len(calls) \in Nat \ {0} /\ Len(calls') = Len(calls) - 1
    BY <1>4, CallersRemain DEF ReturnFromProcess, ListIsConsumed
  <2>2. CASE Len(calls) = 1
    BY <1>4, <2>1, <2>2 DEF ReturnFromProcess, ListIsConsumed
  <2>3. CASE Len(calls) # 1
    <3>1. Len(calls') # 0
      BY <2>1, <2>3
    <3> QED BY <1>4, <2>3, <3>1 DEF ReturnFromProcess, ListIsConsumed
  <2> QED BY <2>2, <2>3
<1>5. CASE UNCHANGED vars
  BY <1>5 DEF vars, ListIsConsumed
<1> QED BY <1>1, <1>2, <1>3, <1>4, <1>5 DEF Next
-------------------------------------------------------------------------------
(***************************************************************************)
(* What is still ahead, after each step.                                   *)
(***************************************************************************)
\* What is ahead is ahead of some active call or of the one about to be made.
LEMMA WaitingMembers ==
  ASSUME NEW q
  PROVE  q \in Waiting <=> \/ \E c \in 1 .. Len(calls) : q \in AheadOf(calls[c])
                           \/ q \in PathsIn(callDir, configFile)
<1>1. q \in UNION {AheadOf(calls[c]) : c \in 1 .. Len(calls)}
        <=> \E c \in 1 .. Len(calls) : q \in AheadOf(calls[c])
  BY Zenon
<1> QED BY <1>1, Zenon DEF Waiting

\* The same after a step.
LEMMA WaitingMembersNext ==
  ASSUME NEW q
  PROVE  q \in Waiting' <=> \/ \E c \in 1 .. Len(calls') : q \in AheadOf(calls'[c])
                            \/ q \in PathsIn(callDir', configFile')
<1>1. q \in UNION {AheadOf(calls'[c]) : c \in 1 .. Len(calls')}
        <=> \E c \in 1 .. Len(calls') : q \in AheadOf(calls'[c])
  BY Zenon
<1>2. Waiting' = (UNION {AheadOf(calls'[c]) : c \in 1 .. Len(calls')})
                   \cup PathsIn(callDir', configFile')
  BY Zenon DEF Waiting, AheadOf, PathsIn
<1> QED BY <1>1, <1>2, Zenon

\* Nothing is ahead in an empty list (the cleared "config-file" list).
LEMMA NothingInEmptyList == \A dir : PathsIn(dir, <<>>) = {}
  BY DEF PathsIn

\* Copying the list into a new call and clearing it keeps what is ahead.
LEMMA CallKeepsWaiting ==
  ASSUME TypeOK, CallProcess
  PROVE  Waiting' = Waiting
<1> DEFINE call == [dir |-> callDir, names |-> configFile, at |-> 1]
<1>1. call \in Call
  BY DEF TypeOK, Call
<1>2. AheadOf(call) = PathsIn(callDir, configFile)
  BY DEF AheadOf, PathsIn
<1>3. calls' = Append(calls, call) /\ configFile' = <<>> /\ callDir' = callDir
  BY DEF CallProcess
<1> HIDE DEF call
<1>4. /\ Len(calls) \in Nat /\ Len(calls') = Len(calls) + 1
      /\ \A c \in 1 .. Len(calls) : calls'[c] = calls[c]
      /\ calls'[Len(calls) + 1] = call
  BY <1>1, <1>3, AppendProperties DEF TypeOK
<1>5. PathsIn(callDir', configFile') = {}
  BY <1>3, NothingInEmptyList
<1>6. ASSUME NEW q PROVE q \in Waiting' <=> q \in Waiting
  <2>1. ASSUME q \in Waiting' PROVE q \in Waiting
    <3>1. PICK c \in 1 .. Len(calls) + 1 : q \in AheadOf(calls'[c])
      BY <1>4, <1>5, <2>1, WaitingMembersNext
    <3>2. CASE c = Len(calls) + 1
      BY <1>2, <1>4, <3>1, <3>2, WaitingMembers
    <3>3. CASE c \in 1 .. Len(calls)
      BY <1>4, <3>1, <3>3, WaitingMembers
    <3> QED BY <1>4, <3>2, <3>3
  <2>2. ASSUME q \in Waiting PROVE q \in Waiting'
    <3>1. CASE \E c \in 1 .. Len(calls) : q \in AheadOf(calls[c])
      <4>1. PICK c \in 1 .. Len(calls) : q \in AheadOf(calls[c])
        BY <3>1
      <4>2. c \in 1 .. Len(calls') /\ q \in AheadOf(calls'[c])
        BY <1>4, <4>1
      <4> QED BY <4>2, WaitingMembersNext
    <3>2. CASE q \in PathsIn(callDir, configFile)
      <4>1. Len(calls) + 1 \in 1 .. Len(calls') /\ q \in AheadOf(calls'[Len(calls) + 1])
        BY <1>2, <1>4, <3>2
      <4> QED BY <4>1, WaitingMembersNext
    <3> QED BY <2>2, <3>1, <3>2, WaitingMembers
  <2> QED BY <2>1, <2>2
<1> QED BY <1>6

\* One name further, the path of that name is no longer ahead of the call.
LEMMA AheadOfNext ==
  ASSUME NEW call \in Call, call.at <= Len(call.names)
  PROVE  AheadOf(call) = AheadOf([call EXCEPT !.at = @ + 1])
                         \cup {Resolve[call.dir][call.names[call.at]]}
<1> DEFINE next == [call EXCEPT !.at = @ + 1]
<1>1. next.dir = call.dir /\ next.names = call.names /\ next.at = call.at + 1
  BY DEF Call
<1>2. call.at .. Len(call.names) = (next.at .. Len(call.names)) \cup {call.at}
  BY <1>1 DEF Call
<1> HIDE DEF next
<1>3. AheadOf(call) = AheadOf(next) \cup {Resolve[call.dir][call.names[call.at]]}
  BY <1>1, <1>2 DEF AheadOf
<1> QED BY <1>3 DEF next

\* Going on to the next name takes at most the path of that name from what is
\* ahead; the shared list is added separately.
LEMMA AdvanceWaiting ==
  ASSUME TypeOK, ListIsConsumed, pc = "loop", AtName, Advance
  PROVE  /\ Waiting' \cup {NextPath} = Waiting \cup PathsIn(callDir', configFile')
         /\ NextPath \in Waiting
<1>1. /\ Len(calls') = Len(calls) /\ Len(calls) \in Nat \ {0}
      /\ \A c \in 1 .. Len(calls) : c # Len(calls) => calls'[c] = calls[c]
      /\ calls'[Len(calls)] = [Current EXCEPT !.at = @ + 1]
  BY AdvanceCalls DEF ListIsConsumed
<1>2. Current \in Call /\ Current = calls[Len(calls)]
  BY CurrentCall DEF ListIsConsumed, Current
<1>3. AheadOf(calls[Len(calls)]) = AheadOf(calls'[Len(calls)]) \cup {NextPath}
  BY <1>1, <1>2, AheadOfNext DEF AtName, NextPath
<1>4. PathsIn(callDir, configFile) = {}
  BY NothingInEmptyList DEF ListIsConsumed
<1>5. ASSUME NEW q \in Waiting' PROVE q \in Waiting \cup PathsIn(callDir', configFile')
  <2>1. CASE q \in PathsIn(callDir', configFile')
    BY <2>1
  <2>2. CASE \E c \in 1 .. Len(calls') : q \in AheadOf(calls'[c])
    <3>1. PICK c \in 1 .. Len(calls) : q \in AheadOf(calls'[c])
      BY <1>1, <2>2
    <3>2. q \in AheadOf(calls[c])
      BY <1>1, <1>3, <3>1
    <3> QED BY <3>2, WaitingMembers
  <2> QED BY <1>5, <2>1, <2>2, WaitingMembersNext
<1>6. NextPath \in Waiting
  BY <1>1, <1>3, WaitingMembers
<1>7. ASSUME NEW q \in Waiting PROVE q \in Waiting' \cup {NextPath}
  <2>1. PICK c \in 1 .. Len(calls) : q \in AheadOf(calls[c])
    BY <1>4, <1>7, WaitingMembers
  <2>2. q \in AheadOf(calls'[c]) \/ q = NextPath
    BY <1>1, <1>3, <2>1
  <2> QED BY <1>1, <2>1, <2>2, WaitingMembersNext
<1>8. PathsIn(callDir', configFile') \subseteq Waiting'
  BY WaitingMembersNext
<1> QED BY <1>5, <1>6, <1>7, <1>8

\* A call that returns has nothing ahead.
LEMMA ReturnKeepsWaiting ==
  ASSUME TypeOK, ListIsConsumed, ReturnFromProcess
  PROVE  Waiting' = Waiting
<1>1. /\ Len(calls) \in Nat \ {0} /\ Len(calls') = Len(calls) - 1
      /\ \A c \in 1 .. Len(calls) - 1 : calls'[c] = calls[c]
  BY CallersRemain DEF ReturnFromProcess, ListIsConsumed
<1>2. AheadOf(calls[Len(calls)]) = {}
  <2>1. Current \in Call
    BY CurrentCall DEF ReturnFromProcess, ListIsConsumed
  <2> QED BY <2>1 DEF ReturnFromProcess, AtName, Current, AheadOf, Call
<1>3. PathsIn(callDir', configFile') = PathsIn(callDir, configFile)
  BY DEF ReturnFromProcess
<1>4. ASSUME NEW q PROVE q \in Waiting' <=> q \in Waiting
  <2>1. (\E c \in 1 .. Len(calls') : q \in AheadOf(calls'[c]))
          <=> (\E c \in 1 .. Len(calls) : q \in AheadOf(calls[c]))
    BY <1>1, <1>2
  <2> QED BY <1>3, <2>1, WaitingMembers, WaitingMembersNext
<1> QED BY <1>4
-------------------------------------------------------------------------------
(***************************************************************************)
(* The rest of the inductive invariant.                                    *)
(***************************************************************************)
\* Nobody changes the files or the command line while Parse runs.
LEMMA FilesStay ==
  ASSUME [Next]_vars
  PROVE  /\ content' = content /\ roots' = roots
         /\ \A p : Includes(p)' = Includes(p)
         /\ \A S : IsClosed(S)' <=> IsClosed(S)
<1>1. content' = content /\ roots' = roots
  BY DEF Next, vars, CallProcess, SkipFile, ProcessFile, RejectFile, ReturnFromProcess
<1>2. \A p : Includes(p)' = Includes(p)
  BY <1>1 DEF Includes, Names, PathsIn
<1>3. \A S : IsClosed(S)' <=> IsClosed(S)
  BY <1>1 DEF IsClosed, Includes, Names, PathsIn
<1> QED BY <1>1, <1>2, <1>3

\* A file that is processed puts what it includes, and no more, into the list.
LEMMA ProcessedFileIncludes ==
  ASSUME TypeOK, ListIsConsumed, ProcessFile
  PROVE  /\ NextPath \in Path
         /\ PathsIn(callDir', configFile') = Includes(NextPath)
<1>1. NextPath \in Path
  BY CurrentCall DEF ProcessFile, ListIsConsumed
<1>2. content[NextPath] \in Seq(Name) /\ Names(NextPath) = content[NextPath]
  BY <1>1 DEF ProcessFile, TypeOK, Names
<1>3. configFile = <<>>
  BY DEF ProcessFile, ListIsConsumed
<1>4. configFile' = Names(NextPath)
  BY <1>2, <1>3 DEF ProcessFile
<1> QED BY <1>1, <1>4 DEF ProcessFile, Includes

\* No step loses a file that should still be processed.
LEMMA NextLosesNothing ==
  TypeOK /\ ListIsConsumed /\ NothingIsLost /\ [Next]_vars => NothingIsLost'
<1> SUFFICES ASSUME TypeOK, ListIsConsumed, NothingIsLost, [Next]_vars, pc' # "failed"
             PROVE  /\ PathsIn(WorkingDir, roots) \subseteq processed' \cup Waiting'
                    /\ \A p \in processed' : /\ content[p] \notin {Missing, Malformed}
                                             /\ Includes(p) \subseteq processed' \cup Waiting'
  BY FilesStay DEF NothingIsLost, PathsIn
<1>1. CASE CallProcess
  BY <1>1, CallKeepsWaiting DEF CallProcess, NothingIsLost
<1>2. CASE SkipFile
  <2>1. processed \cup Waiting \subseteq processed' \cup Waiting'
    BY <1>2, AdvanceWaiting DEF SkipFile
  <2> QED BY <1>2, <2>1 DEF SkipFile, NothingIsLost
<1>3. CASE ProcessFile
  <2>1. processed \cup Waiting \subseteq processed' \cup Waiting'
    BY <1>3, AdvanceWaiting DEF ProcessFile
  <2>2. Includes(NextPath) \subseteq Waiting'
    BY <1>3, ProcessedFileIncludes, WaitingMembersNext
  <2> QED BY <1>3, <2>1, <2>2 DEF ProcessFile, NothingIsLost
<1>4. CASE RejectFile
  BY <1>4 DEF RejectFile
<1>5. CASE ReturnFromProcess
  BY <1>5, ReturnKeepsWaiting DEF ReturnFromProcess, NothingIsLost
<1>6. CASE UNCHANGED vars
  <2>1. Waiting' = Waiting
    BY <1>6, WaitingMembers, WaitingMembersNext DEF vars
  <2> QED BY <1>6, <2>1 DEF vars, NothingIsLost
<1> QED BY <1>1, <1>2, <1>3, <1>4, <1>5, <1>6 DEF Next

\* No step puts a file ahead that cannot be reached.
LEMMA NextInventsNothing ==
  TypeOK /\ ListIsConsumed /\ NothingIsInvented /\ [Next]_vars => NothingIsInvented'
<1> SUFFICES ASSUME TypeOK, ListIsConsumed, NothingIsInvented, [Next]_vars,
                    NEW S \in SUBSET Path, IsClosed(S)
             PROVE  processed' \cup Waiting' \subseteq S
  BY FilesStay DEF NothingIsInvented
<1>0. processed \cup Waiting \subseteq S
  BY DEF NothingIsInvented
<1>1. CASE CallProcess
  BY <1>0, <1>1, CallKeepsWaiting DEF CallProcess
<1>2. CASE SkipFile
  <2>1. PathsIn(callDir', configFile') = {}
    BY <1>2, NothingInEmptyList DEF SkipFile, ListIsConsumed
  <2> QED BY <1>0, <1>2, <2>1, AdvanceWaiting DEF SkipFile
<1>3. CASE ProcessFile
  <2>1. NextPath \in S /\ Waiting' \subseteq Waiting \cup Includes(NextPath)
    BY <1>0, <1>3, AdvanceWaiting, ProcessedFileIncludes DEF ProcessFile
  <2>2. Includes(NextPath) \subseteq S
    BY <1>3, <2>1, ProcessedFileIncludes DEF IsClosed
  <2> QED BY <1>0, <1>3, <2>1, <2>2 DEF ProcessFile
<1>4. CASE RejectFile
  <2>1. NextPath \in Waiting
    BY <1>4, CurrentCall, WaitingMembers DEF RejectFile, ListIsConsumed, Current
  <2>2. Waiting' = Waiting
    BY <1>4, WaitingMembers, WaitingMembersNext DEF RejectFile
  <2> QED BY <1>0, <1>4, <2>1, <2>2 DEF RejectFile
<1>5. CASE ReturnFromProcess
  BY <1>0, <1>5, ReturnKeepsWaiting DEF ReturnFromProcess
<1>6. CASE UNCHANGED vars
  <2>1. Waiting' = Waiting
    BY <1>6, WaitingMembers, WaitingMembersNext DEF vars
  <2> QED BY <1>0, <1>6, <2>1 DEF vars
<1> QED BY <1>1, <1>2, <1>3, <1>4, <1>5, <1>6 DEF Next

\* A call more is made only for a file more that has been processed.
LEMMA NextCallsOncePerFile ==
  TypeOK /\ ListIsConsumed /\ OneCallPerFile /\ [Next]_vars => OneCallPerFile'
<1> SUFFICES ASSUME TypeOK, ListIsConsumed, OneCallPerFile, [Next]_vars
             PROVE  OneCallPerFile'
  OBVIOUS
<1>1. IsFiniteSet(processed) /\ Cardinality(processed) \in Nat /\ Len(calls) \in Nat
  BY PathAssumption, FS_Subset, FS_CardinalityType DEF TypeOK
<1>2. ASSUME processed' = processed \cup {NextPath}, NextPath \notin processed
      PROVE  Cardinality(processed') = Cardinality(processed) + 1
  BY <1>1, <1>2, FS_AddElement
<1>3. CASE CallProcess
  <2>1. [dir |-> callDir, names |-> configFile, at |-> 1] \in Call
    BY DEF TypeOK, Call
  <2>2. Len(calls') = Len(calls) + 1
    BY <1>3, <2>1, AppendProperties DEF CallProcess, TypeOK
  <2> QED BY <1>1, <1>3, <2>2 DEF CallProcess, OneCallPerFile
<1>4. CASE SkipFile
  <2>1. Len(calls') = Len(calls)
    BY <1>4, AdvanceCalls DEF SkipFile, ListIsConsumed
  <2> QED BY <1>1, <1>4, <2>1 DEF SkipFile, OneCallPerFile
<1>5. CASE ProcessFile
  <2>1. Len(calls') = Len(calls)
    BY <1>5, AdvanceCalls DEF ProcessFile, ListIsConsumed
  <2> QED BY <1>1, <1>2, <1>5, <2>1 DEF ProcessFile, OneCallPerFile
<1>6. CASE RejectFile
  BY <1>1, <1>2, <1>6 DEF RejectFile, OneCallPerFile
<1>7. CASE ReturnFromProcess
  <2>1. Len(calls') = Len(calls) - 1
    BY <1>7, CallersRemain DEF ReturnFromProcess, ListIsConsumed
  <2>2. pc' # "call" /\ processed' = processed
    BY <1>7 DEF ReturnFromProcess
  <2> QED BY <1>1, <1>7, <2>1, <2>2 DEF ReturnFromProcess, OneCallPerFile
<1>8. CASE UNCHANGED vars
  BY <1>8 DEF vars, OneCallPerFile
<1> QED BY <1>3, <1>4, <1>5, <1>6, <1>7, <1>8 DEF Next
-------------------------------------------------------------------------------
\* The invariant holds when the command line has been parsed.
LEMMA InitInvariant == Init => IncludeInvariant
<1> SUFFICES ASSUME Init PROVE IncludeInvariant
  OBVIOUS
<1>1. TypeOK
  BY InitType
<1>2. Waiting = PathsIn(WorkingDir, roots)
  BY DEF Init, Waiting
<1>3. Cardinality(processed) = 0
  BY FS_EmptySet DEF Init
<1>4. Len(calls) = 0
  BY DEF Init
<1>5. ListIsConsumed
  BY <1>4 DEF Init, ListIsConsumed
<1>6. NothingIsLost
  BY <1>2 DEF Init, NothingIsLost
<1>7. NothingIsInvented
  BY <1>2 DEF Init, NothingIsInvented, IsClosed
<1>8. OneCallPerFile
  BY <1>3, <1>4 DEF Init, OneCallPerFile
<1> QED BY <1>1, <1>5, <1>6, <1>7, <1>8 DEF IncludeInvariant

\* Every behaviour of the processing satisfies the invariant.
LEMMA IncludeInvariantHolds == Spec => []IncludeInvariant
<1>1. IncludeInvariant /\ [Next]_vars => IncludeInvariant'
  BY NextType, NextConsumes, NextLosesNothing, NextInventsNothing, NextCallsOncePerFile
     DEF IncludeInvariant
<1> QED BY InitInvariant, <1>1, PTL DEF Spec

(***************************************************************************)
(* The variables keep their types (Options.cpp, ProcessConfigFiles).       *)
(***************************************************************************)
THEOREM TypeCorrect == Spec => []TypeOK
<1>1. IncludeInvariant => TypeOK
  BY DEF IncludeInvariant
<1> QED BY IncludeInvariantHolds, <1>1, PTL

(***************************************************************************)
(* When Parse returns, whatever the files include, all the files that can  *)
(* be reached from the command line have been read (ProcessConfigFiles).   *)
(***************************************************************************)
THEOREM EveryFileIsProcessed == Spec => []DoneIsComplete
<1>1. ASSUME IncludeInvariant, pc = "done"
      PROVE  IsClosed(processed) /\ \A p \in processed : content[p] \notin {Missing, Malformed}
  <2>1. Waiting = {}
    BY <1>1, WaitingMembers, NothingInEmptyList DEF IncludeInvariant, ListIsConsumed
  <2> QED BY <1>1, <2>1 DEF IncludeInvariant, NothingIsLost, IsClosed
<1>2. IncludeInvariant => DoneIsComplete
  BY <1>1 DEF DoneIsComplete
<1> QED BY IncludeInvariantHolds, <1>2, PTL

(***************************************************************************)
(* No file is read that cannot be reached from the command line.           *)
(***************************************************************************)
THEOREM NoOtherFileIsProcessed == Spec => []OnlyReachable
<1>1. IncludeInvariant => OnlyReachable
  BY DEF IncludeInvariant, NothingIsInvented, OnlyReachable
<1> QED BY IncludeInvariantHolds, <1>1, PTL

(***************************************************************************)
(* The recursion of ProcessConfigFiles is no deeper than the number of     *)
(* files and one, also when files include each other.                      *)
(***************************************************************************)
THEOREM StackIsBounded == Spec => []RecursionIsBounded
<1>1. ASSUME IncludeInvariant PROVE Len(calls) <= Cardinality(Path) + 1
  <2>1. /\ Cardinality(processed) \in Nat /\ Cardinality(Path) \in Nat
        /\ Cardinality(processed) <= Cardinality(Path)
    BY <1>1, PathAssumption, FS_Subset, FS_CardinalityType DEF IncludeInvariant, TypeOK
  <2>2. Len(calls) \in Nat
    BY <1>1 DEF IncludeInvariant, TypeOK
  <2> QED BY <1>1, <2>1, <2>2 DEF IncludeInvariant, OneCallPerFile
<1>2. IncludeInvariant => RecursionIsBounded
  BY <1>1 DEF RecursionIsBounded
<1> QED BY IncludeInvariantHolds, <1>2, PTL
-------------------------------------------------------------------------------
(***************************************************************************)
(* Induction, for the order in which the files are processed.              *)
(***************************************************************************)
\* A set of natural numbers that is not empty has a least element.
LEMMA LeastElement ==
  ASSUME NEW T \in SUBSET Nat, T # {}
  PROVE  \E m \in T : \A k \in T : m <= k
<1> DEFINE Less == OpToRel(<, Nat)
<1>1. IsWellFoundedOn(Less, Nat)
  BY NatLessThanWellFounded
<1>2. \A i, j \in Nat : i < j => <<i, j>> \in Less
  <2> TAKE i, j \in Nat
  <2>1. <<i, j>> \in Nat \X Nat /\ <<i, j>>[1] = i /\ <<i, j>>[2] = j
    OBVIOUS
  <2> QED BY <2>1 DEF OpToRel
<1> HIDE DEF Less
<1>3. PICK m \in T : \A k \in T : <<k, m>> \notin Less
  BY <1>1, WFMin
<1>4. ASSUME NEW k \in T PROVE m <= k
  <2>1. m \in Nat /\ k \in Nat /\ ~ (k < m)
    BY <1>2, <1>3
  <2> QED BY <2>1
<1> QED BY <1>4

\* A set that has 0, and each number up to last whose predecessor it has, has all of them.
LEMMA Induction ==
  ASSUME NEW last \in Nat, NEW S, 0 \in S, \A n \in 1 .. last : n - 1 \in S => n \in S
  PROVE  0 .. last \subseteq S
<1> DEFINE T == {n \in 0 .. last : n \notin S}
<1>1. CASE T = {}
  BY <1>1
<1>2. CASE T # {}
  <2>1. T \in SUBSET Nat
    OBVIOUS
  <2>2. PICK m \in T : \A k \in T : m <= k
    <3> HIDE DEF T
    <3> QED BY <1>2, <2>1, LeastElement
  <2>3. m \in 1 .. last /\ m - 1 \in 0 .. last /\ m - 1 \notin T
    BY <2>2
  <2> QED BY <2>2, <2>3
<1> QED BY <1>1, <1>2

-------------------------------------------------------------------------------
(***************************************************************************)
(* The order that the list of the files still to do gives.                 *)
(***************************************************************************)
\* All the names in all the files can be counted.
LEMMA InclusionsAreFinite ==
  ASSUME TypeOK
  PROVE  IsFiniteSet(Inclusions(Path)) /\ Total \in Nat /\ \A p \in Path : Names(p) \in Seq(Name) /\ Len(Names(p)) \in Nat
<1>1. ASSUME NEW p \in Path PROVE Names(p) \in Seq(Name) /\ Len(Names(p)) \in Nat
  <2>1. <<>> \in Seq(Name)
    OBVIOUS
  <2>2. Names(p) \in Seq(Name)
    BY <2>1 DEF TypeOK, Names
  <2> QED BY <2>2
<1> DEFINE of(p) == {p} \X (1 .. Len(Names(p)))
           all == {of(p) : p \in Path}
           f == [p \in Path |-> of(p)]
<1>2. ASSUME NEW p \in Path PROVE IsFiniteSet(of(p))
  <2>1. IsFiniteSet({p}) /\ IsFiniteSet(1 .. Len(Names(p)))
    <3>1. PICK length \in Int : length = Len(Names(p))
      BY <1>1
    <3>2. IsFiniteSet(1 .. length)
      BY FS_Interval
    <3> QED BY <3>1, <3>2, FS_Singleton
  <2> QED BY <2>1, FS_Product
<1> HIDE DEF of
<1>3. f \in Surjection(Path, all)
  BY DEF Surjection
<1>4. IsFiniteSet(all)
  <2> HIDE DEF f, all
  <2> QED BY <1>3, PathAssumption, FS_Surjection
<1>5. IsFiniteSet(UNION all)
  <2>1. \A T \in all : IsFiniteSet(T)
    BY <1>2
  <2> HIDE DEF all
  <2> QED BY <1>4, <2>1, FS_UNION
<1>6. Inclusions(Path) = UNION all
  BY DEF Inclusions, of
<1>7. Total \in Nat
  BY <1>5, <1>6, FS_CardinalityType DEF Total, TypeOK
<1> QED BY <1>1, <1>5, <1>6, <1>7

\* A file more has the names in it more.
LEMMA InclusionsOfOneMore ==
  ASSUME TypeOK, NEW S \in SUBSET Path, NEW p \in Path \ S
  PROVE  /\ Cardinality(Inclusions(S \cup {p})) = Cardinality(Inclusions(S)) + Len(Names(p))
         /\ Cardinality(Inclusions(S)) \in Nat
<1>1. IsFiniteSet(Inclusions(Path)) /\ Len(Names(p)) \in Nat
  BY InclusionsAreFinite
<1>2. Inclusions(S) \subseteq Inclusions(Path)
  BY DEF Inclusions
<1>3. IsFiniteSet(Inclusions(S)) /\ Cardinality(Inclusions(S)) \in Nat
  BY <1>1, <1>2, FS_Subset, FS_CardinalityType
<1> DEFINE own == {p} \X (1 .. Len(Names(p)))
<1>4. IsFiniteSet(own) /\ Cardinality(own) = Len(Names(p))
  <2>1. IsFiniteSet({p}) /\ Cardinality({p}) = 1
    BY FS_Singleton
  <2>2. IsFiniteSet(1 .. Len(Names(p))) /\ Cardinality(1 .. Len(Names(p))) = Len(Names(p))
    BY <1>1, FS_Interval, SMTT(20)
  <2>3. IsFiniteSet(own) /\ Cardinality(own) = Cardinality({p}) * Cardinality(1 .. Len(Names(p)))
    BY <2>1, <2>2, FS_Product
  <2> HIDE DEF own
  <2> QED BY <1>1, <2>1, <2>2, <2>3
<1>5. Inclusions(S \cup {p}) = Inclusions(S) \cup own
  BY DEF Inclusions
<1>6. Inclusions(S) \cap own = {}
  BY DEF Inclusions
<1> HIDE DEF own
<1>7. Cardinality(Inclusions(S) \cup own) = Cardinality(Inclusions(S)) + Cardinality(own) - Cardinality(Inclusions(S) \cap own)
  BY <1>3, <1>4, FS_Union
<1> QED
  <2>1. Cardinality(Inclusions(S) \cap own) = 0
    BY <1>6, FS_EmptySet
  <2>2. Cardinality(Inclusions(S) \cup own) = Cardinality(Inclusions(S)) + Len(Names(p)) - 0
    BY <1>4, <1>7, <2>1
  <2>3. PICK before, more \in Nat : before = Cardinality(Inclusions(S)) /\ more = Len(Names(p))
    BY <1>1, <1>3
  <2>4. before + more - 0 = before + more
    OBVIOUS
  <2>5. Cardinality(Inclusions(S \cup {p})) = before + more
    BY <1>5, <2>2, <2>3, <2>4, Zenon
  <2> QED BY <2>3, <2>5

\* No more names are in some of the files than in all.
LEMMA InclusionsOfSome ==
  ASSUME TypeOK, NEW S \in SUBSET Path
  PROVE  Cardinality(Inclusions(S)) \in Nat /\ Len(roots) + Cardinality(Inclusions(S)) <= Total
<1>1. IsFiniteSet(Inclusions(Path)) /\ Total \in Nat /\ Len(roots) \in Nat
  BY InclusionsAreFinite DEF TypeOK
<1>2. Inclusions(S) \subseteq Inclusions(Path)
  BY DEF Inclusions
<1>3. IsFiniteSet(Inclusions(S)) /\ Cardinality(Inclusions(S)) \in Nat /\ Cardinality(Inclusions(Path)) \in Nat
      /\ Cardinality(Inclusions(S)) <= Cardinality(Inclusions(Path))
  BY <1>1, <1>2, FS_Subset, FS_CardinalityType
<1> QED BY <1>1, <1>3 DEF Total

\* What is left after one more file has been taken from the list.
Taken(w) ==
    LET p == w.todo[1]
    IN  IF w.todo = <<>> THEN w
        ELSE IF \E k \in 1 .. Len(w.order) : w.order[k] = p
          THEN [w EXCEPT !.todo = Tail(@)]
          ELSE [todo  |-> PathList(DirOf[p], Names(p)) \o Tail(w.todo),
                order |-> Append(w.order, p)]

\* The list begins with the files of the command line, and files are taken from it one by one.
LEMMA WorkListSteps ==
  ASSUME TypeOK
  PROVE  /\ WorkList[0] = [todo |-> PathList(WorkingDir, roots), order |-> <<>>]
         /\ \A n \in 1 .. Total : WorkList[n] = Taken(WorkList[n - 1])
<1> DEFINE Start == [todo |-> PathList(WorkingDir, roots), order |-> <<>>]
           Is(f, last) == f = [n \in 0 .. last |-> IF n = 0 THEN Start ELSE Taken(f[n - 1])]
           T == {n \in 0 .. Total : \E f : Is(f, n)}
<1>1. Total \in Nat
  BY InclusionsAreFinite
<1> HIDE DEF Start
<1>2. 0 \in T
  <2>1. Is([n \in 0 .. 0 |-> Start], 0)
    OBVIOUS
  <2>2. 0 \in 0 .. Total
    BY <1>1
  <2> HIDE DEF Is
  <2> QED BY <2>1, <2>2
<1>3. ASSUME NEW m \in 1 .. Total, m - 1 \in T PROVE m \in T
  <2>1. PICK f : Is(f, m - 1)
    <3> HIDE DEF Is
    <3> QED BY <1>3
  <2> DEFINE g == [n \in 0 .. m |-> IF n = 0 THEN Start ELSE Taken(f[n - 1])]
  <2>2. \A n \in 0 .. m - 1 : n \in 0 .. m
    BY <1>1
  <2>3. \A n \in 0 .. m - 1 : f[n] = g[n]
    BY <2>1, <2>2, Zenon
  <2>4. \A n \in 0 .. m : n = 0 \/ n - 1 \in 0 .. m - 1
    BY <1>1
  <2>5. \A n \in 0 .. m : g[n] = IF n = 0 THEN Start ELSE Taken(g[n - 1])
    <3> TAKE n \in 0 .. m
    <3>1. CASE n = 0
      BY <3>1
    <3>2. CASE n # 0
      <4>1. f[n - 1] = g[n - 1]
        BY <2>3, <2>4, <3>2
      <4>2. g[n] = Taken(f[n - 1])
        BY <3>2
      <4> HIDE DEF g
      <4> QED BY <3>2, <4>1, <4>2
    <3> QED BY <3>1, <3>2
  <2>6. Is(g, m)
    <3>1. g = [n \in 0 .. m |-> g[n]]
      OBVIOUS
    <3> HIDE DEF g
    <3> QED BY <2>5, <3>1
  <2>7. m \in 0 .. Total
    BY <1>1
  <2> HIDE DEF Is, g
  <2> QED BY <2>6, <2>7
<1>4. \E f : Is(f, Total)
  <2>1. Total \in 0 .. Total
    BY <1>1
  <2> HIDE DEF T
  <2>2. 0 .. Total \subseteq T
    BY <1>1, <1>2, <1>3, Induction
  <2>3. Total \in T
    BY <2>1, <2>2
  <2> QED BY <2>3 DEF T
<1>5. Is(CHOOSE f : Is(f, Total), Total)
  BY <1>4, Zenon
<1>6. WorkList = CHOOSE f : Is(f, Total)
  BY Zenon DEF WorkList, Taken, Start
<1>7. \A n \in 0 .. Total : WorkList[n] = IF n = 0 THEN Start ELSE Taken(WorkList[n - 1])
  BY <1>5, <1>6, Zenon
<1>8. WorkList[0] = Start
  BY <1>1, <1>7
<1>9. \A n \in 1 .. Total : n \in 0 .. Total /\ n # 0
  BY <1>1
<1> QED BY <1>7, <1>8, <1>9 DEF Start

\* Once the list is empty, nothing changes any more.
LEMMA EmptyListStays ==
  ASSUME TypeOK, NEW n \in 0 .. Total, WorkList[n].todo = <<>>
  PROVE  WorkList[Total] = WorkList[n]
<1> DEFINE T == {m \in 0 .. Total : m >= n => WorkList[m] = WorkList[n]}
<1>1. Total \in Nat /\ n \in Nat /\ n <= Total
  BY InclusionsAreFinite
<1>2. 0 \in T
  BY <1>1
<1>3. ASSUME NEW m \in 1 .. Total, m - 1 \in T PROVE m \in T
  <2>1. m \in 0 .. Total /\ m \in Nat
    BY <1>1
  <2>2. CASE m <= n
    BY <1>1, <2>1, <2>2
  <2>3. CASE m > n
    <3>1. m - 1 >= n
      BY <1>1, <2>1, <2>3
    <3>2. WorkList[m - 1] = WorkList[n]
      BY <1>3, <3>1
    <3>3. WorkList[m] = Taken(WorkList[m - 1])
      BY WorkListSteps
    <3>4. Taken(WorkList[n]) = WorkList[n]
      BY DEF Taken
    <3> QED BY <2>1, <3>2, <3>3, <3>4
  <2> QED BY <1>1, <2>1, <2>2, <2>3
<1>4. Total \in 0 .. Total /\ Total >= n
  BY <1>1
<1>5. 0 .. Total \subseteq T
  <2> HIDE DEF T
  <2> QED BY <1>1, <1>2, <1>3, Induction
<1> QED BY <1>4, <1>5

\* The paths of names.
LEMMA PathListType ==
  ASSUME NEW dir \in Dir, NEW names \in Seq(Name)
  PROVE  /\ PathList(dir, names) \in Seq(Path) /\ Len(PathList(dir, names)) = Len(names)
         /\ \A k \in 1 .. Len(names) : PathList(dir, names)[k] = Resolve[dir][names[k]]
<1>1. Len(names) \in Nat /\ \A k \in 1 .. Len(names) : Resolve[dir][names[k]] \in Path
  BY PathAssumption
<1> QED BY <1>1 DEF PathList

\* What is ahead of a call is a list of paths, and the path of its next name comes first.
LEMMA AheadListNext ==
  ASSUME NEW call \in Call
  PROVE  /\ AheadList(call) \in Seq(Path)
         /\ call.at > Len(call.names) => AheadList(call) = <<>>
         /\ call.at <= Len(call.names) =>
                AheadList(call) = <<Resolve[call.dir][call.names[call.at]]>> \o AheadList([call EXCEPT !.at = @ + 1])
<1>1. PICK dir \in Dir, names \in Seq(Name), at \in Nat \ {0} : call.dir = dir /\ call.names = names /\ call.at = at
  BY DEF Call
<1>2. SubSeq(names, at, Len(names)) \in Seq(Name)
  OBVIOUS
<1>3. AheadList(call) = PathList(dir, SubSeq(names, at, Len(names))) /\ AheadList(call) \in Seq(Path)
  BY <1>1, <1>2, PathListType DEF AheadList
<1>4. ASSUME at > Len(names) PROVE AheadList(call) = <<>>
  <2>1. SubSeq(names, at, Len(names)) = <<>>
    BY <1>4
  <2> QED BY <1>3, <2>1 DEF PathList
<1>5. ASSUME at <= Len(names)
      PROVE  AheadList(call) = <<Resolve[dir][names[at]]>> \o AheadList([call EXCEPT !.at = @ + 1])
  <2> DEFINE next == [call EXCEPT !.at = @ + 1]
  <2>1. next.dir = dir /\ next.names = names /\ next.at = at + 1
    BY <1>1 DEF Call
  <2>2. AheadList(next) = PathList(dir, SubSeq(names, at + 1, Len(names)))
    BY <2>1 DEF AheadList
  <2> HIDE DEF next
  <2>3. PICK all \in Seq(Name) : all = SubSeq(names, at, Len(names)) /\ Len(all) = Len(names) - at + 1
                                 /\ \A k \in 1 .. Len(all) : all[k] = names[at + k - 1]
    <3>1. /\ SubSeq(names, at, Len(names)) \in Seq(Name) /\ Len(SubSeq(names, at, Len(names))) = Len(names) - at + 1
          /\ \A k \in 1 .. Len(names) - at + 1 : SubSeq(names, at, Len(names))[k] = names[at + k - 1]
      BY <1>5
    <3> QED BY <3>1
  <2>4. PICK rest \in Seq(Name) : rest = SubSeq(names, at + 1, Len(names)) /\ Len(rest) = Len(names) - at
                                  /\ \A k \in 1 .. Len(rest) : rest[k] = names[at + k]
    <3>1. /\ SubSeq(names, at + 1, Len(names)) \in Seq(Name) /\ Len(SubSeq(names, at + 1, Len(names))) = Len(names) - at
          /\ \A k \in 1 .. Len(names) - at : SubSeq(names, at + 1, Len(names))[k] = names[at + k]
      BY <1>5
    <3> QED BY <3>1
  <2>5. PICK long \in Seq(Path) : /\ long = PathList(dir, all) /\ Len(long) = Len(names) - at + 1
                                  /\ \A k \in 1 .. Len(names) - at + 1 : long[k] = Resolve[dir][names[at + k - 1]]
    <3>1. PICK long \in Seq(Path) : /\ long = PathList(dir, all) /\ Len(long) = Len(all)
                                    /\ \A k \in 1 .. Len(all) : long[k] = Resolve[dir][all[k]]
      BY PathListType
    <3> QED BY <2>3, <3>1
  <2>6. PICK short \in Seq(Path) : /\ short = PathList(dir, rest) /\ Len(short) = Len(names) - at
                                   /\ \A k \in 1 .. Len(names) - at : short[k] = Resolve[dir][names[at + k]]
    <3>1. PICK short \in Seq(Path) : /\ short = PathList(dir, rest) /\ Len(short) = Len(rest)
                                     /\ \A k \in 1 .. Len(rest) : short[k] = Resolve[dir][rest[k]]
      BY PathListType
    <3>2. \A k \in 1 .. Len(names) - at : short[k] = Resolve[dir][names[at + k]]
      BY <2>4, <3>1
    <3> QED BY <2>4, <3>1, <3>2
  <2>7. PICK one \in Seq(Path) : one = <<Resolve[dir][names[at]]>> /\ Len(one) = 1 /\ one[1] = Resolve[dir][names[at]]
    <3>1. Resolve[dir][names[at]] \in Path
      BY <1>5, PathAssumption
    <3>2. <<Resolve[dir][names[at]]>> \in Seq(Path)
      BY <3>1
    <3> QED BY <3>2
  <2>8. one \o short \in Seq(Path) /\ Len(one \o short) = Len(long)
    <3>1. one \o short \in Seq(Path) /\ Len(one \o short) = Len(one) + Len(short)
      BY ConcatProperties
    <3>2. 1 + (Len(names) - at) = Len(names) - at + 1
      OBVIOUS
    <3> QED BY <2>5, <2>6, <2>7, <3>1, <3>2
  <2>9. ASSUME NEW k \in 1 .. Len(long) PROVE long[k] = (one \o short)[k]
    <3>1. CASE k = 1
      <4>1. at + k - 1 = at /\ (one \o short)[1] = one[1] /\ 1 \in 1 .. Len(names) - at + 1
        BY <1>5, <2>6, <2>7, <3>1
      <4> QED BY <2>5, <2>7, <3>1, <4>1
    <3>2. CASE k # 1
      <4>1. PICK j \in 1 .. Len(names) - at : k = j + 1 /\ at + k - 1 = at + j
        <5>1. k - 1 \in 1 .. Len(names) - at /\ k = k - 1 + 1 /\ at + k - 1 = at + (k - 1)
          BY <1>5, <2>5, <3>2
        <5> QED BY <5>1
      <4>2. (one \o short)[j + 1] = short[j]
        BY <2>6, <2>7, <4>1
      <4> QED BY <2>5, <2>6, <4>1, <4>2
    <3> QED BY <3>1, <3>2
  <2>10. long = one \o short
    <3>1. PICK both \in Seq(Path) : both = one \o short /\ Len(both) = Len(long)
      BY <2>8
    <3>2. \A k \in 1 .. Len(long) : long[k] = both[k]
      BY <2>9, <3>1
    <3>3. long = both
      BY <3>1, <3>2, SeqEqual
    <3> QED BY <3>1, <3>3
  <2> QED BY <1>3, <2>2, <2>3, <2>4, <2>5, <2>6, <2>7, <2>10 DEF next
<1> QED BY <1>1, <1>3, <1>4, <1>5

\* The lists of the active calls up to c, the latest one's first.
RestTo(stack) ==
    CHOOSE rest : rest = [c \in 0 .. Len(stack) |-> IF c = 0 THEN <<>> ELSE AheadList(stack[c]) \o rest[c - 1]]

LEMMA RestSteps ==
  ASSUME NEW stack \in Seq(Call)
  PROVE  /\ Rest(stack) = RestTo(stack)[Len(stack)] /\ RestTo(stack)[0] = <<>>
         /\ \A c \in 0 .. Len(stack) : RestTo(stack)[c] \in Seq(Path)
         /\ \A c \in 1 .. Len(stack) : RestTo(stack)[c] = AheadList(stack[c]) \o RestTo(stack)[c - 1]
<1> DEFINE Is(f, last) == f = [c \in 0 .. last |-> IF c = 0 THEN <<>> ELSE AheadList(stack[c]) \o f[c - 1]]
           T == {n \in 0 .. Len(stack) : \E f : Is(f, n)}
<1>1. Len(stack) \in Nat
  OBVIOUS
<1>2. 0 \in T
  <2>1. Is([c \in 0 .. 0 |-> <<>>], 0)
    OBVIOUS
  <2>2. 0 \in 0 .. Len(stack)
    BY <1>1
  <2> HIDE DEF Is
  <2> QED BY <2>1, <2>2
<1>3. ASSUME NEW m \in 1 .. Len(stack), m - 1 \in T PROVE m \in T
  <2>1. PICK f : Is(f, m - 1)
    <3> HIDE DEF Is
    <3> QED BY <1>3
  <2> DEFINE g == [c \in 0 .. m |-> IF c = 0 THEN <<>> ELSE AheadList(stack[c]) \o f[c - 1]]
  <2>2. \A c \in 0 .. m - 1 : c \in 0 .. m
    BY <1>1
  <2>3. \A c \in 0 .. m - 1 : f[c] = g[c]
    BY <2>1, <2>2, Zenon
  <2>4. \A c \in 0 .. m : c = 0 \/ c - 1 \in 0 .. m - 1
    BY <1>1
  <2>5. \A c \in 0 .. m : g[c] = IF c = 0 THEN <<>> ELSE AheadList(stack[c]) \o g[c - 1]
    <3> TAKE c \in 0 .. m
    <3>1. CASE c = 0
      BY <3>1
    <3>2. CASE c # 0
      <4>1. f[c - 1] = g[c - 1]
        BY <2>3, <2>4, <3>2
      <4>2. g[c] = AheadList(stack[c]) \o f[c - 1]
        BY <3>2
      <4> HIDE DEF g
      <4> QED BY <3>2, <4>1, <4>2
    <3> QED BY <3>1, <3>2
  <2>6. Is(g, m)
    <3>1. g = [c \in 0 .. m |-> g[c]]
      OBVIOUS
    <3> HIDE DEF g
    <3> QED BY <2>5, <3>1
  <2>7. m \in 0 .. Len(stack)
    BY <1>1
  <2> HIDE DEF Is, g
  <2> QED BY <2>6, <2>7
<1>4. \E f : Is(f, Len(stack))
  <2>1. Len(stack) \in 0 .. Len(stack)
    BY <1>1
  <2> HIDE DEF T
  <2>2. 0 .. Len(stack) \subseteq T
    BY <1>1, <1>2, <1>3, Induction
  <2>3. Len(stack) \in T
    BY <2>1, <2>2
  <2> QED BY <2>3 DEF T
<1>5. Is(RestTo(stack), Len(stack))
  BY <1>4, Zenon DEF RestTo
<1>6. Rest(stack) = RestTo(stack)[Len(stack)]
  BY Zenon DEF Rest, RestTo
<1>7. \A c \in 0 .. Len(stack) : RestTo(stack)[c] = IF c = 0 THEN <<>> ELSE AheadList(stack[c]) \o RestTo(stack)[c - 1]
  BY <1>5, Zenon
<1>8. \A c \in 1 .. Len(stack) : RestTo(stack)[c] = AheadList(stack[c]) \o RestTo(stack)[c - 1]
  <2>1. \A c \in 1 .. Len(stack) : c \in 0 .. Len(stack) /\ c # 0
    BY <1>1
  <2> QED BY <1>7, <2>1
<1>9. RestTo(stack)[0] = <<>>
  BY <1>1, <1>7
<1>10. \A c \in 0 .. Len(stack) : RestTo(stack)[c] \in Seq(Path)
  <2> DEFINE P == {c \in 0 .. Len(stack) : RestTo(stack)[c] \in Seq(Path)}
  <2>1. 0 \in P
    <3>1. <<>> \in Seq(Path)
      OBVIOUS
    <3>2. RestTo(stack)[0] \in Seq(Path)
      BY <1>9, <3>1, Zenon
    <3>3. 0 \in 0 .. Len(stack)
      BY <1>1
    <3> QED BY <3>2, <3>3
  <2>2. ASSUME NEW m \in 1 .. Len(stack), m - 1 \in P PROVE m \in P
    <3>1. m \in 0 .. Len(stack) /\ stack[m] \in Call
      BY <1>1
    <3>2. PICK ahead, before \in Seq(Path) : ahead = AheadList(stack[m]) /\ before = RestTo(stack)[m - 1]
      BY <2>2, <3>1, AheadListNext
    <3>3. ahead \o before \in Seq(Path)
      BY ConcatProperties
    <3> QED BY <1>8, <3>1, <3>2, <3>3
  <2> HIDE DEF P
  <2>3. 0 .. Len(stack) \subseteq P
    BY <1>1, <2>1, <2>2, Induction
  <2> QED BY <2>3 DEF P
<1> QED BY <1>6, <1>8, <1>9, <1>10

\* Calls that have not changed still have the same ahead.
LEMMA SameRest ==
  ASSUME NEW stack \in Seq(Call), NEW other \in Seq(Call), NEW last \in Nat,
         last <= Len(stack), last <= Len(other), \A c \in 1 .. last : stack[c] = other[c]
  PROVE  RestTo(stack)[last] = RestTo(other)[last]
<1> DEFINE T == {c \in 0 .. last : RestTo(stack)[c] = RestTo(other)[c]}
<1>1. Len(stack) \in Nat /\ Len(other) \in Nat
  OBVIOUS
<1>2. 0 \in T
  <2>1. RestTo(stack)[0] = <<>> /\ RestTo(other)[0] = <<>>
    BY RestSteps
  <2>2. 0 \in 0 .. last
    OBVIOUS
  <2> QED BY <2>1, <2>2, Zenon
<1>3. ASSUME NEW m \in 1 .. last, m - 1 \in T PROVE m \in T
  <2>1. m \in 1 .. Len(stack) /\ m \in 1 .. Len(other) /\ m \in 0 .. last
    BY <1>1
  <2>2. RestTo(stack)[m] = AheadList(stack[m]) \o RestTo(stack)[m - 1]
    BY <2>1, RestSteps
  <2>3. RestTo(other)[m] = AheadList(other[m]) \o RestTo(other)[m - 1]
    BY <2>1, RestSteps
  <2>4. stack[m] = other[m] /\ RestTo(stack)[m - 1] = RestTo(other)[m - 1]
    BY <1>3
  <2> QED BY <2>1, <2>2, <2>3, <2>4
<1>4. 0 .. last \subseteq T
  <2> HIDE DEF T
  <2> QED BY <1>2, <1>3, Induction
<1>5. last \in 0 .. last
  OBVIOUS
<1> QED BY <1>4, <1>5

\* What one call more, on top of others, has ahead comes before what they have.
LEMMA RestOfOneMore ==
  ASSUME NEW stack \in Seq(Call), NEW others \in Seq(Call), Len(stack) = Len(others) + 1,
         \A c \in 1 .. Len(others) : stack[c] = others[c]
  PROVE  Rest(stack) = AheadList(stack[Len(stack)]) \o Rest(others) /\ Rest(others) \in Seq(Path)
<1>1. PICK n \in Nat : n = Len(others)
  OBVIOUS
<1>2. Len(stack) \in 1 .. Len(stack) /\ Len(stack) - 1 = n /\ n <= Len(stack)
  BY <1>1
<1>3. Rest(stack) = AheadList(stack[Len(stack)]) \o RestTo(stack)[n]
  BY <1>2, RestSteps
<1>4. RestTo(stack)[n] = RestTo(others)[n]
  BY <1>1, <1>2, SameRest
<1>5. Rest(others) = RestTo(others)[n] /\ RestTo(others)[n] \in Seq(Path)
  <2>1. n \in 0 .. Len(others)
    BY <1>1
  <2> QED BY <1>1, <2>1, RestSteps
<1> QED BY <1>3, <1>4, <1>5

\* The order that is meant does not change while Parse runs.
LEMMA OrderStays ==
  ASSUME content' = content, roots' = roots
  PROVE  /\ WorkList' = WorkList /\ Total' = Total
         /\ \A S : Inclusions(S)' = Inclusions(S)
         /\ \A p : Names(p)' = Names(p)
<1>1. \A p : Names(p)' = Names(p)
  BY DEF Names
<1>2. \A S : Inclusions(S)' = Inclusions(S)
  BY <1>1 DEF Inclusions
<1>3. Total' = Total
  BY <1>2 DEF Total
<1>4. WorkList' = WorkList
  <2> DEFINE NamesOf(files, p) == IF files[p] \in {Missing, Malformed} THEN <<>> ELSE files[p]
             Of(files, names, total) ==
                 LET after[n \in 0 .. total] ==
                         IF n = 0 THEN [todo |-> PathList(WorkingDir, names), order |-> <<>>]
                         ELSE LET w == after[n - 1]
                                  p == w.todo[1]
                              IN  IF w.todo = <<>> THEN w
                                  ELSE IF \E k \in 1 .. Len(w.order) : w.order[k] = p
                                    THEN [w EXCEPT !.todo = Tail(@)]
                                    ELSE [todo  |-> PathList(DirOf[p], NamesOf(files, p)) \o Tail(w.todo),
                                          order |-> Append(w.order, p)]
                 IN  after
  <2>1. WorkList = Of(content, roots, Total)
    BY Zenon DEF WorkList, Names
  <2>2. WorkList' = Of(content', roots', Total')
    BY Zenon DEF WorkList, Names
  <2> HIDE DEF Of
  <2> QED BY <1>3, <2>1, <2>2
<1> QED BY <1>1, <1>2, <1>3, <1>4

\* When the loop goes on, the file it was at is no longer the first one to do.
LEMMA TodoAdvanced ==
  ASSUME TypeOK, ListIsConsumed, pc = "loop", AtName, Advance
  PROVE  \E rest \in Seq(Path) : /\ Todo = <<NextPath>> \o rest
                                 /\ Rest(calls') = rest /\ NextPath \in Path
<1>1. /\ calls' \in Seq(Call) /\ Len(calls') = Len(calls) /\ Len(calls) \in Nat \ {0}
      /\ \A c \in 1 .. Len(calls) : c # Len(calls) => calls'[c] = calls[c]
      /\ calls'[Len(calls)] = [Current EXCEPT !.at = @ + 1]
  BY AdvanceCalls DEF ListIsConsumed
<1>2. Current \in Call /\ Current = calls[Len(calls)] /\ NextPath \in Path
  BY CurrentCall DEF ListIsConsumed, Current
<1>3. PICK next \in Call : next = [Current EXCEPT !.at = @ + 1]
  <2>1. [Current EXCEPT !.at = @ + 1] \in Call
    BY <1>2 DEF Call
  <2> QED BY <2>1
<1>4. PICK others \in Seq(Call) : /\ Len(calls) = Len(others) + 1
                                  /\ \A c \in 1 .. Len(others) : others[c] = calls[c]
  <2>1. calls \in Seq(Call)
    BY DEF TypeOK
  <2>2. PICK last \in Nat : last = Len(calls) - 1 /\ Len(calls) = last + 1 /\ last <= Len(calls)
    BY <1>1
  <2>3. /\ SubSeq(calls, 1, last) \in Seq(Call) /\ Len(SubSeq(calls, 1, last)) = last
        /\ \A c \in 1 .. last : SubSeq(calls, 1, last)[c] = calls[c]
    BY <1>1, <2>1, <2>2
  <2> QED BY <2>2, <2>3
<1>5. \A c \in 1 .. Len(others) : c \in 1 .. Len(calls) /\ c # Len(calls)
  BY <1>4
<1>6. /\ Rest(calls) = AheadList(Current) \o Rest(others)
      /\ Rest(others) \in Seq(Path)
  <2>1. calls \in Seq(Call)
    BY DEF TypeOK
  <2>2. \A c \in 1 .. Len(others) : calls[c] = others[c]
    BY <1>4
  <2> QED BY <1>2, <1>4, <2>1, <2>2, RestOfOneMore
<1>7. Rest(calls') = AheadList(next) \o Rest(others)
  <2>1. PICK after \in Seq(Call) : after = calls'
    BY <1>1
  <2>2. Len(after) = Len(others) + 1 /\ after[Len(after)] = next
    BY <1>1, <1>3, <1>4, <2>1
  <2>3. \A c \in 1 .. Len(others) : after[c] = others[c]
    BY <1>1, <1>4, <1>5, <2>1
  <2>4. Rest(after) = AheadList(next) \o Rest(others)
    BY <2>2, <2>3, RestOfOneMore
  <2> QED BY <2>1, <2>4
<1>8. AheadList(Current) = <<NextPath>> \o AheadList(next) /\ AheadList(next) \in Seq(Path)
  <2>1. Current.at <= Len(Current.names)
    BY DEF AtName
  <2>2. AheadList(Current) = <<NextPath>> \o AheadList([Current EXCEPT !.at = @ + 1])
    BY <1>2, <2>1, AheadListNext DEF NextPath
  <2>3. AheadList(next) \in Seq(Path)
    BY AheadListNext
  <2> QED BY <1>3, <2>2, <2>3
<1>9. PICK ahead, below, rest \in Seq(Path) : /\ ahead = AheadList(next) /\ below = Rest(others)
                                              /\ rest = ahead \o below
  <2>1. AheadList(next) \o Rest(others) \in Seq(Path)
    BY <1>6, <1>8, ConcatProperties
  <2> QED BY <1>6, <1>8, <2>1
<1>10. PICK first \in Seq(Path) : first = <<NextPath>>
  <2>1. <<NextPath>> \in Seq(Path)
    BY <1>2
  <2> QED BY <2>1
<1>11. Todo = Rest(calls)
  <2>1. Todo = <<>> \o Rest(calls)
    BY DEF Todo
  <2>2. Rest(calls) \in Seq(Path)
    <3>1. first \o ahead \in Seq(Path)
      BY ConcatProperties
    <3>2. (first \o ahead) \o below \in Seq(Path)
      BY <3>1, ConcatProperties
    <3> QED BY <1>6, <1>8, <1>9, <1>10, <3>2
  <2> QED BY <2>1, <2>2, ConcatEmptySeq
<1>12. (first \o ahead) \o below = first \o (ahead \o below)
  BY ConcatAssociative, SMTT(30)
<1> QED BY <1>2, <1>6, <1>7, <1>8, <1>9, <1>10, <1>11, <1>12

\* Taking the first file from the list: it is done already, or it is put at the
\* end of the order and what it includes is put in front of the rest.
LEMMA OneFileTaken ==
  ASSUME TypeOK, OrderInvariant, pc # "failed",
         NEW p \in Path, NEW rest \in Seq(Path), Todo = <<p>> \o rest
  PROVE  \E n \in 0 .. Total :
             /\ WorkList[n] = IF p \in processed THEN [todo |-> rest, order |-> applied]
                              ELSE [todo  |-> PathList(DirOf[p], Names(p)) \o rest,
                                    order |-> Append(applied, p)]
             /\ n + Len(rest) = Len(roots) + Cardinality(Inclusions(processed))
<1>1. PICK before \in 0 .. Total :
          /\ WorkList[before] = [todo |-> Todo, order |-> applied]
          /\ before + Len(Todo) = Len(roots) + Cardinality(Inclusions(processed))
  BY DEF OrderInvariant
<1>2. PICK todo \in Seq(Path) : /\ todo = Todo /\ Len(todo) = Len(rest) + 1
                                /\ todo # <<>> /\ todo[1] = p /\ Tail(todo) = rest
  <2>1. PICK one \in Seq(Path) : one = <<p>> /\ Len(one) = 1 /\ one[1] = p
    <3>1. <<p>> \in Seq(Path)
      OBVIOUS
    <3> QED BY <3>1
  <2>2. PICK todo \in Seq(Path) : /\ todo = one \o rest /\ Len(todo) = 1 + Len(rest)
                                  /\ \A k \in 1 .. 1 + Len(rest) : todo[k] = IF k <= 1 THEN one[k] ELSE rest[k - 1]
    <3>1. PICK both : both = one \o rest
      OBVIOUS
    <3>2. /\ both \in Seq(Path) /\ Len(both) = Len(one) + Len(rest)
          /\ \A k \in 1 .. Len(one) + Len(rest) : both[k] = IF k <= Len(one) THEN one[k] ELSE rest[k - Len(one)]
      BY <3>1, ConcatProperties
    <3> QED BY <2>1, <3>1, <3>2
  <2>3. todo # <<>> /\ todo[1] = p
    BY <2>1, <2>2
  <2>4. Tail(todo) = rest
    <3>1. PICK end \in Seq(Path) : /\ end = Tail(todo) /\ Len(end) = Len(rest)
                                   /\ \A k \in 1 .. Len(rest) : end[k] = todo[k + 1]
      <4>1. Tail(todo) \in Seq(Path) /\ Len(Tail(todo)) = Len(todo) - 1
        BY <2>3, HeadTailProperties
      <4>2. \A k \in 1 .. Len(todo) - 1 : Tail(todo)[k] = todo[k + 1]
        BY <2>3, HeadTailProperties
      <4>3. Len(todo) - 1 = Len(rest)
        BY <2>2
      <4> QED BY <4>1, <4>2, <4>3
    <3>2. \A k \in 1 .. Len(rest) : end[k] = rest[k]
      BY <2>2, <3>1
    <3>3. end = rest
      BY <3>1, <3>2, SeqEqual
    <3> QED BY <3>1, <3>3
  <2>5. Todo = todo /\ Len(todo) = Len(rest) + 1
    BY <2>1, <2>2
  <2> QED BY <2>3, <2>4, <2>5
<1>3. PICK n \in 1 .. Total : before = n - 1
  <2>1. Len(roots) + Cardinality(Inclusions(processed)) <= Total
    BY InclusionsOfSome DEF TypeOK
  <2>2. Total \in Nat /\ Len(rest) \in Nat
    BY InclusionsAreFinite
  <2>3. before + (Len(rest) + 1) <= Total
    BY <1>1, <1>2, <2>1
  <2>4. before + 1 \in 1 .. Total /\ before = (before + 1) - 1
    BY <2>2, <2>3
  <2> QED BY <2>4
<1>4. WorkList[n] = Taken([todo |-> todo, order |-> applied])
  BY <1>1, <1>2, <1>3, WorkListSteps
<1>5. (\E k \in 1 .. Len(applied) : applied[k] = p) <=> p \in processed
  BY DEF OrderInvariant
<1>6. WorkList[n] = IF p \in processed THEN [todo |-> rest, order |-> applied]
                    ELSE [todo  |-> PathList(DirOf[p], Names(p)) \o rest, order |-> Append(applied, p)]
  <2> DEFINE w == [todo |-> todo, order |-> applied]
  <2>1. w.todo # <<>> /\ w.todo[1] = p /\ Tail(w.todo) = rest /\ w.order = applied
    BY <1>2
  <2>2. [w EXCEPT !.todo = Tail(@)] = [todo |-> rest, order |-> applied]
    <3>1. \A some : [[todo |-> todo, order |-> applied] EXCEPT !.todo = some] = [todo |-> some, order |-> applied]
      OBVIOUS
    <3>2. [w EXCEPT !.todo = Tail(@)] = [w EXCEPT !.todo = Tail(w.todo)]
      OBVIOUS
    <3> QED BY <2>1, <3>1, <3>2
  <2>3. WorkList[n] = Taken(w)
    BY <1>4
  <2> HIDE DEF w
  <2> QED BY <1>5, <2>1, <2>2, <2>3, Zenon DEF Taken
<1>7. n + Len(rest) = Len(roots) + Cardinality(Inclusions(processed))
  <2>1. before + (Len(rest) + 1) = n + Len(rest)
    BY <1>3
  <2> QED BY <1>1, <1>2, <2>1
<1>8. n \in 0 .. Total
  OBVIOUS
<1> QED BY <1>6, <1>7, <1>8

\* Nothing is ahead when no call is active.
LEMMA NothingActive == Rest(<<>>) = <<>>
<1>1. PICK none \in Seq(Call) : none = <<>> /\ Len(none) = 0
  <2>1. <<>> \in Seq(Call)
    OBVIOUS
  <2> QED BY <2>1
<1>2. Rest(none) = <<>>
  BY <1>1, RestSteps
<1> QED BY <1>1, <1>2

\* Nothing has been taken when the processing of the command line begins.
LEMMA InitOrder == Init => OrderInvariant
<1> SUFFICES ASSUME Init PROVE OrderInvariant
  OBVIOUS
<1>1. TypeOK
  BY InitType
<1>2. PICK first \in Seq(Path) : first = PathList(WorkingDir, roots) /\ Len(first) = Len(roots)
  <2>1. roots \in Seq(Name) /\ WorkingDir \in Dir
    BY <1>1, PathAssumption DEF TypeOK
  <2> QED BY <2>1, PathListType
<1>3. Todo = first
  <2>1. Todo = PathList(WorkingDir, roots) \o <<>>
    BY NothingActive DEF Todo, Init
  <2> QED BY <1>2, <2>1, ConcatEmptySeq
<1>4. Cardinality(Inclusions({})) = 0
  <2>1. Inclusions({}) = {}
    BY DEF Inclusions
  <2> QED BY <2>1, FS_EmptySet
<1>5. processed = {} /\ applied = <<>>
  BY DEF Init
<1>6. 0 \in 0 .. Total /\ WorkList[0] = [todo |-> Todo, order |-> applied]
  <2>1. Total \in Nat
    BY <1>1, InclusionsAreFinite
  <2>2. WorkList[0] = [todo |-> PathList(WorkingDir, roots), order |-> <<>>]
    BY <1>1, WorkListSteps
  <2> QED BY <1>2, <1>3, <1>5, <2>1, <2>2
<1>7. 0 + Len(Todo) = Len(roots) + Cardinality(Inclusions(processed))
  <2>1. Len(roots) \in Nat
    BY <1>1 DEF TypeOK
  <2> QED BY <1>2, <1>3, <1>4, <1>5, <2>1
<1>8. processed = {applied[k] : k \in 1 .. Len(applied)}
  BY <1>5
<1> QED BY <1>6, <1>7, <1>8 DEF OrderInvariant

\* What is to do after a step, in terms of the state after it.
LEMMA TodoAfter ==
  /\ pc' = "call" => Todo' = PathList(callDir', configFile') \o Rest(calls')
  /\ pc' # "call" => Todo' = <<>> \o Rest(calls')
<1>1. Rest(calls)' = Rest(calls')
  BY Zenon DEF Rest, AheadList, PathList
<1>2. PathList(callDir, configFile)' = PathList(callDir', configFile')
  BY Zenon DEF PathList
<1> QED BY <1>1, <1>2 DEF Todo

\* What the step has to keep, in terms of the lists before it.
LEMMA OrderAfter ==
  ASSUME content' = content, roots' = roots,
         processed' = {applied'[k] : k \in 1 .. Len(applied')},
         NEW n \in 0 .. Total, NEW todo, Todo' = todo,
         WorkList[n] = [todo |-> todo, order |-> applied'],
         n + Len(todo) = Len(roots) + Cardinality(Inclusions(processed'))
  PROVE  OrderInvariant'
<1>1. Total' = Total /\ WorkList' = WorkList
  BY OrderStays
<1>2. Inclusions(processed)' = Inclusions(processed')
  <2>1. \A p : Names(p)' = Names(p)
    BY OrderStays
  <2> QED BY <2>1 DEF Inclusions
<1>3. WorkList'[n] = [todo |-> Todo', order |-> applied']
  BY <1>1
<1>4. n + Len(Todo') = Len(roots') + Cardinality(Inclusions(processed)')
  BY <1>2
<1>5. n \in 0 .. Total'
  BY <1>1
<1> QED BY <1>3, <1>4, <1>5 DEF OrderInvariant

\* Every step leaves what is to do alone or takes the first file from it.
LEMMA NextOrder ==
  TypeOK /\ ListIsConsumed /\ OrderInvariant /\ [Next]_vars => OrderInvariant'
<1> SUFFICES ASSUME TypeOK, ListIsConsumed, OrderInvariant, [Next]_vars, pc' # "failed"
             PROVE  OrderInvariant'
  BY DEF OrderInvariant
<1>1. content' = content /\ roots' = roots
  BY FilesStay
<1>2. CASE CallProcess
  <2> DEFINE call == [dir |-> callDir, names |-> configFile, at |-> 1]
  <2>1. PICK new \in Call : new = call
    <3>1. call \in Call
      BY DEF TypeOK, Call
    <3> QED BY <3>1
  <2>2. PICK after \in Seq(Call) : /\ after = calls' /\ Len(after) = Len(calls) + 1
                                   /\ after[Len(after)] = new
                                   /\ \A c \in 1 .. Len(calls) : after[c] = calls[c]
    <3>1. calls' = Append(calls, new) /\ calls \in Seq(Call)
      BY <1>2, <2>1 DEF CallProcess, TypeOK
    <3> QED BY <3>1, AppendProperties
  <2>3. Rest(calls') = AheadList(new) \o Rest(calls)
    <3>1. calls \in Seq(Call)
      BY DEF TypeOK
    <3>2. Rest(after) = AheadList(after[Len(after)]) \o Rest(calls)
      BY <2>2, <3>1, RestOfOneMore
    <3> QED BY <2>2, <3>2
  <2>4. AheadList(new) = PathList(callDir, configFile)
    <3>1. SubSeq(configFile, 1, Len(configFile)) = configFile
      BY DEF TypeOK
    <3>2. new.dir = callDir /\ new.names = configFile /\ new.at = 1
      BY <2>1
    <3> QED BY <3>1, <3>2 DEF AheadList
  <2>5. Todo = Rest(calls')
    BY <1>2, <2>3, <2>4 DEF Todo, CallProcess
  <2>6. Rest(calls') \in Seq(Path)
    <3>1. AheadList(new) \in Seq(Path)
      BY AheadListNext
    <3>2. calls \in Seq(Call)
      BY DEF TypeOK
    <3>3. Rest(calls) \in Seq(Path)
      BY <2>2, <3>2, RestOfOneMore
    <3> QED BY <2>3, <3>1, <3>3, ConcatProperties
  <2>7. Todo' = Todo
    <3>1. Todo' = <<>> \o Rest(calls')
      BY <1>2, TodoAfter DEF CallProcess
    <3> QED BY <2>5, <2>6, <3>1, ConcatEmptySeq
  <2>8. applied' = applied /\ processed' = processed /\ pc # "failed"
    BY <1>2 DEF CallProcess
  <2> QED BY <1>1, <2>7, <2>8, OrderAfter DEF OrderInvariant
<1>3. CASE SkipFile
  <2>1. pc = "loop" /\ AtName /\ Advance /\ NextPath \in processed
    BY <1>3 DEF SkipFile
  <2>2. PICK rest \in Seq(Path) : Todo = <<NextPath>> \o rest /\ Rest(calls') = rest /\ NextPath \in Path
    BY <2>1, TodoAdvanced
  <2>3. PICK n \in 0 .. Total : /\ WorkList[n] = [todo |-> rest, order |-> applied]
                                /\ n + Len(rest) = Len(roots) + Cardinality(Inclusions(processed))
    BY <2>1, <2>2, OneFileTaken
  <2>4. Todo' = rest
    <3>1. Todo' = <<>> \o rest
      BY <1>3, <2>2, TodoAfter DEF SkipFile
    <3> QED BY <3>1, ConcatEmptySeq
  <2>5. applied' = applied /\ processed' = processed
    BY <1>3 DEF SkipFile
  <2>6. processed' = {applied'[k] : k \in 1 .. Len(applied')}
    BY <2>1, <2>5 DEF OrderInvariant
  <2> QED BY <1>1, <2>3, <2>4, <2>5, <2>6, OrderAfter
<1>4. CASE ProcessFile
  <2>1. pc = "loop" /\ AtName /\ Advance /\ NextPath \notin processed
    BY <1>4 DEF ProcessFile
  <2>2. PICK rest \in Seq(Path) : Todo = <<NextPath>> \o rest /\ Rest(calls') = rest /\ NextPath \in Path
    BY <2>1, TodoAdvanced
  <2>3. PICK p \in Path : p = NextPath
    BY <2>2
  <2>4. PICK n \in 0 .. Total :
            /\ WorkList[n] = [todo |-> PathList(DirOf[p], Names(p)) \o rest, order |-> Append(applied, p)]
            /\ n + Len(rest) = Len(roots) + Cardinality(Inclusions(processed))
    BY <2>1, <2>2, <2>3, OneFileTaken
  <2>5. configFile' = Names(p) /\ callDir' = DirOf[p]
    <3>1. content[p] \in Seq(Name)
      BY <1>4, <2>3 DEF ProcessFile, TypeOK
    <3>2. Names(p) = content[p]
      BY <1>4, <2>3 DEF ProcessFile, Names
    <3>3. configFile' = <<>> \o content[p]
      BY <1>4, <2>3 DEF ProcessFile, ListIsConsumed
    <3> QED BY <1>4, <2>3, <3>1, <3>2, <3>3, ConcatEmptySeq DEF ProcessFile
  <2>6. PICK first \in Seq(Path) : first = PathList(DirOf[p], Names(p)) /\ Len(first) = Len(Names(p))
    <3>1. Names(p) \in Seq(Name) /\ DirOf[p] \in Dir
      BY InclusionsAreFinite, PathAssumption
    <3> QED BY <3>1, PathListType
  <2>7. PICK todo \in Seq(Path) : todo = first \o rest /\ Len(todo) = Len(first) + Len(rest)
    BY ConcatProperties
  <2>8. Todo' = todo
    BY <1>4, <2>2, <2>5, <2>6, <2>7, TodoAfter DEF ProcessFile
  <2>9. processed' = processed \cup {p} /\ applied' = Append(applied, p)
    BY <1>4, <2>3 DEF ProcessFile
  <2>10. processed' = {applied'[k] : k \in 1 .. Len(applied')}
    <3>1. processed = {applied[k] : k \in 1 .. Len(applied)}
      BY <2>1 DEF OrderInvariant
    <3>2. PICK longer \in Seq(Path) : /\ longer = applied' /\ Len(longer) = Len(applied) + 1
                                      /\ \A k \in 1 .. Len(applied) : longer[k] = applied[k]
                                      /\ longer[Len(applied) + 1] = p
      BY <2>9, AppendProperties DEF TypeOK
    <3>3. 1 .. Len(longer) = (1 .. Len(applied)) \cup {Len(applied) + 1}
      BY <3>2, SMTT(20) DEF TypeOK
    <3>4. {longer[k] : k \in 1 .. Len(longer)} = {longer[k] : k \in 1 .. Len(applied)} \cup {longer[Len(applied) + 1]}
      <4> QED BY <3>3, Zenon
    <3>5. {longer[k] : k \in 1 .. Len(applied)} = {applied[k] : k \in 1 .. Len(applied)}
      BY <3>2
    <3>6. {longer[k] : k \in 1 .. Len(longer)} = processed \cup {p}
      BY <3>1, <3>2, <3>4, <3>5
    <3> QED BY <2>9, <3>2, <3>6
  <2>11. n + Len(todo) = Len(roots) + Cardinality(Inclusions(processed'))
    <3>1. PICK size \in Nat : /\ size = Cardinality(Inclusions(processed))
                              /\ Cardinality(Inclusions(processed \cup {p})) = size + Len(Names(p))
      BY <2>1, <2>3, InclusionsOfOneMore DEF TypeOK
    <3>2. PICK some, left, given \in Nat : some = Len(Names(p)) /\ left = Len(rest) /\ given = Len(roots)
      <4>1. Len(Names(p)) \in Nat /\ Len(rest) \in Nat /\ Len(roots) \in Nat
        BY InclusionsAreFinite DEF TypeOK
      <4> QED BY <4>1
    <3>3. n + left = given + size /\ n \in Nat
      BY <2>4, <3>1, <3>2
    <3>4. n + (some + left) = given + (size + some)
      BY <3>3
    <3> QED BY <2>6, <2>7, <2>9, <3>1, <3>2, <3>4
  <2>12. WorkList[n] = [todo |-> todo, order |-> applied']
    BY <2>4, <2>6, <2>7, <2>9
  <2> QED BY <1>1, <2>8, <2>10, <2>11, <2>12, OrderAfter
<1>5. CASE RejectFile
  BY <1>5 DEF RejectFile
<1>6. CASE ReturnFromProcess
  <2>1. PICK callers \in Seq(Call) : /\ callers = calls' /\ Len(calls) = Len(callers) + 1
                                     /\ \A c \in 1 .. Len(callers) : calls[c] = callers[c]
    <3>1. /\ calls' \in Seq(Call)
          /\ Len(calls) \in Nat \ {0} /\ Len(calls') = Len(calls) - 1
          /\ \A c \in 1 .. Len(calls) - 1 : calls'[c] = calls[c]
      BY <1>6, CallersRemain DEF ReturnFromProcess, ListIsConsumed
    <3> QED BY <3>1
  <2>2. Rest(calls) = AheadList(Current) \o Rest(callers) /\ Rest(callers) \in Seq(Path)
    <3>1. calls \in Seq(Call)
      BY DEF TypeOK
    <3> QED BY <2>1, <3>1, RestOfOneMore DEF Current
  <2>3. AheadList(Current) = <<>>
    <3>1. Current \in Call /\ ~ AtName
      BY <1>6, CurrentCall DEF ReturnFromProcess, ListIsConsumed
    <3>2. Current.at > Len(Current.names)
      BY <3>1 DEF AtName, Call
    <3> QED BY <3>1, <3>2, AheadListNext
  <2>4. Rest(calls) = Rest(calls')
    BY <2>1, <2>2, <2>3, ConcatEmptySeq
  <2>5. pc = "loop" /\ pc' # "call" /\ applied' = applied /\ processed' = processed
    BY <1>6 DEF ReturnFromProcess
  <2>6. Todo' = Todo
    BY <2>4, <2>5, TodoAfter DEF Todo
  <2> QED BY <1>1, <2>5, <2>6, OrderAfter DEF OrderInvariant
<1>7. CASE UNCHANGED vars
  <2>1. pc' = pc /\ applied' = applied /\ processed' = processed /\ callDir' = callDir /\ configFile' = configFile /\ calls' = calls
    BY <1>7 DEF vars
  <2>2. Todo' = Todo
    BY <2>1, TodoAfter DEF Todo
  <2> QED BY <1>1, <2>1, <2>2, OrderAfter DEF OrderInvariant
<1> QED BY <1>2, <1>3, <1>4, <1>5, <1>6, <1>7 DEF Next

\* What the order consists of once nothing is left to do.
LEMMA NothingLeft ==
  TypeOK /\ ListIsConsumed /\ OrderInvariant => OrderIsDepthFirst
<1> SUFFICES ASSUME TypeOK, ListIsConsumed, OrderInvariant, pc = "done"
             PROVE  applied = WorkList[Total].order
  BY DEF OrderIsDepthFirst
<1>1. calls = <<>>
  BY DEF ListIsConsumed, TypeOK
<1>2. Todo = <<>>
  BY <1>1, NothingActive DEF Todo
<1>3. PICK n \in 0 .. Total : WorkList[n] = [todo |-> Todo, order |-> applied]
  BY DEF OrderInvariant
<1>4. WorkList[n].todo = <<>> /\ WorkList[n].order = applied
  BY <1>2, <1>3
<1> QED BY <1>4, EmptyListStays

(***************************************************************************)
(* For every set of files, however they include each other, the parameters *)
(* are parsed depth first: those of a file once, before those of the files *)
(* it includes, and these before those of the files named after it         *)
(* (ProcessConfigFiles).                                                   *)
(***************************************************************************)
THEOREM ParametersAreParsedDepthFirst == Spec => []OrderIsDepthFirst
<1>1. TypeOK /\ ListIsConsumed /\ OrderInvariant => OrderIsDepthFirst
  BY NothingLeft
<1>2. IncludeInvariant => TypeOK /\ ListIsConsumed
  BY DEF IncludeInvariant
<1>3. Spec => []OrderInvariant
  <2>1. Init => OrderInvariant
    BY InitOrder
  <2>2. IncludeInvariant /\ OrderInvariant /\ [Next]_vars => OrderInvariant'
    BY <1>2, NextOrder
  <2> QED BY <2>1, <2>2, IncludeInvariantHolds, PTL DEF Spec
<1> QED BY <1>1, <1>2, <1>3, IncludeInvariantHolds, PTL
===============================================================================
