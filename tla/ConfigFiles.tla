----------------------------- MODULE ConfigFiles ------------------------------
(***************************************************************************)
(* Options::Parse of a command line: the recursive processing of the       *)
(* configuration files (option -f) that it names and that name each other  *)
(* (ProcessConfigFiles in Options.cpp).                                    *)
(*                                                                         *)
(* Every call takes the names found in the options' "config-file" list,    *)
(* which all calls share, clears the list, and handles its names in turn,  *)
(* calling itself for the names each file has put into the list.           *)
(***************************************************************************)
EXTENDS Integers, Sequences, FiniteSets

CONSTANTS
    Path,       \* the absolute, normalized paths of files
    Name,       \* what can be written behind -f
    Dir,        \* directories
    WorkingDir, \* the directory the program is started in
    DirOf,      \* DirOf[p]: the directory of the file p
    Resolve,    \* Resolve[d][n]: the path that name n means in directory d
    Missing,    \* the contents of a file that cannot be opened
    Malformed,  \* the contents of a file with a missing end quote
    Contents,   \* the files there may be: for each path, the names it passes
                \*   to -f, or Missing, or Malformed
    CommandLine \* the lists of names the command line may pass to -f

ASSUME PathAssumption ==
    /\ WorkingDir \in Dir
    /\ DirOf \in [Path -> Dir]
    /\ Resolve \in [Dir -> [Name -> Path]]
    /\ IsFiniteSet(Path)
    /\ Missing \notin Seq(Name)
    /\ Malformed \notin Seq(Name)

ASSUME ContentsAssumption ==
    /\ Contents \subseteq [Path -> Seq(Name) \cup {Missing, Malformed}]
    /\ CommandLine \subseteq Seq(Name)

VARIABLES
    content,    \* the files there are
    roots,      \* the names on the command line
    configFile, \* the list "config-file" of the options
    callDir,    \* the argument path of the call that is being made
    calls,      \* the active calls of ProcessConfigFiles, the latest one last
    processed,  \* processedConfigFiles
    applied,    \* the files whose parameters have been parsed, in order
    pc          \* "call", "loop", "done" or "failed"

vars == <<content, roots, configFile, callDir, calls, processed, applied, pc>>

\* An active call: its path, its copy of the list, and the position in it.
Call == [dir : Dir, names : Seq(Name), at : Nat \ {0}]

TypeOK ==
    /\ content \in [Path -> Seq(Name) \cup {Missing, Malformed}]
    /\ roots \in Seq(Name)
    /\ configFile \in Seq(Name)
    /\ callDir \in Dir
    /\ calls \in Seq(Call)
    /\ processed \subseteq Path
    /\ applied \in Seq(Path)
    /\ pc \in {"call", "loop", "done", "failed"}

\* The command line itself has been parsed.
Init ==
    /\ content \in Contents
    /\ roots \in CommandLine
    /\ configFile = roots
    /\ callDir = WorkingDir
    /\ calls = <<>>
    /\ processed = {}
    /\ applied = <<>>
    /\ pc = "call"
-------------------------------------------------------------------------------
Current  == calls[Len(calls)]
AtName   == Current.at <= Len(Current.names)
NextPath == Resolve[Current.dir][Current.names[Current.at]]

\* The loop goes on to the next name.
Advance == calls' = [calls EXCEPT ![Len(calls)].at = @ + 1]

Backwards(names) == [k \in 1 .. Len(names) |-> names[Len(names) + 1 - k]]

\* A faulty form of CallProcess: the names are taken from the end of the list.
CallProcessBackwards ==
    /\ pc = "call"
    /\ pc' = "loop"
    /\ calls' = Append(calls, [dir |-> callDir, names |-> Backwards(configFile), at |-> 1])
    /\ configFile' = <<>>
    /\ UNCHANGED <<content, roots, callDir, processed, applied>>

\* Another: the loop starts in front of the first name.
CallProcessFromZero ==
    /\ pc = "call"
    /\ pc' = "loop"
    /\ calls' = Append(calls, [dir |-> callDir, names |-> configFile, at |-> 0])
    /\ configFile' = <<>>
    /\ UNCHANGED <<content, roots, callDir, processed, applied>>

\* ProcessConfigFiles is entered: the list is copied and cleared.
CallProcess ==
    /\ pc = "call"
    /\ pc' = "loop"
    /\ calls' = Append(calls, [dir |-> callDir, names |-> configFile, at |-> 1])
    /\ configFile' = <<>>
    /\ UNCHANGED <<content, roots, callDir, processed, applied>>

\* A faulty form of SkipFile: the loop does not go on.
SkipFileStaying ==
    /\ pc = "loop" /\ AtName
    /\ NextPath \in processed
    /\ UNCHANGED vars

\* The file has been processed already.
SkipFile ==
    /\ pc = "loop" /\ AtName
    /\ NextPath \in processed
    /\ Advance
    /\ UNCHANGED <<content, roots, configFile, callDir, processed, applied, pc>>

\* Faulty forms of ProcessFile: the file is not remembered; the names in it are
\* resolved in the directory of the file that includes it.
ProcessFileForgetting ==
    /\ pc = "loop" /\ AtName
    /\ NextPath \notin processed
    /\ content[NextPath] \notin {Missing, Malformed}
    /\ applied' = Append(applied, NextPath)
    /\ configFile' = configFile \o content[NextPath]
    /\ callDir' = DirOf[NextPath]
    /\ Advance
    /\ pc' = "call"
    /\ UNCHANGED <<content, roots, processed>>

ProcessFileInCallersDir ==
    /\ pc = "loop" /\ AtName
    /\ NextPath \notin processed
    /\ content[NextPath] \notin {Missing, Malformed}
    /\ processed' = processed \cup {NextPath}
    /\ applied' = Append(applied, NextPath)
    /\ configFile' = configFile \o content[NextPath]
    /\ callDir' = Current.dir
    /\ Advance
    /\ pc' = "call"
    /\ UNCHANGED <<content, roots>>

\* The file is read, its parameters are parsed, and the next call is made.
ProcessFile ==
    /\ pc = "loop" /\ AtName
    /\ NextPath \notin processed
    /\ content[NextPath] \notin {Missing, Malformed}
    /\ processed' = processed \cup {NextPath}
    /\ applied' = Append(applied, NextPath)
    /\ configFile' = configFile \o content[NextPath]
    /\ callDir' = DirOf[NextPath]
    /\ Advance
    /\ pc' = "call"
    /\ UNCHANGED <<content, roots>>

\* A faulty form of RejectFile: the loop goes on without the file.
RejectFileSkipping ==
    /\ pc = "loop" /\ AtName
    /\ NextPath \notin processed
    /\ content[NextPath] \in {Missing, Malformed}
    /\ processed' = processed \cup {NextPath}
    /\ Advance
    /\ UNCHANGED <<content, roots, configFile, callDir, applied, pc>>

\* The file cannot be opened or split into parameters: an exception ends Parse.
RejectFile ==
    /\ pc = "loop" /\ AtName
    /\ NextPath \notin processed
    /\ content[NextPath] \in {Missing, Malformed}
    /\ processed' = processed \cup {NextPath}
    /\ pc' = "failed"
    /\ UNCHANGED <<content, roots, configFile, callDir, calls, applied>>

\* The loop has reached the end of its names: the call returns.
ReturnFromProcess ==
    /\ pc = "loop" /\ ~ AtName
    /\ calls' = SubSeq(calls, 1, Len(calls) - 1)
    /\ pc' = IF Len(calls) = 1 THEN "done" ELSE "loop"
    /\ UNCHANGED <<content, roots, configFile, callDir, processed, applied>>

Next == CallProcess \/ SkipFile \/ ProcessFile \/ RejectFile \/ ReturnFromProcess

Spec == Init /\ [][Next]_vars /\ WF_vars(Next)
-------------------------------------------------------------------------------
(***************************************************************************)
(* What including means, said of the files alone.                          *)
(***************************************************************************)
Names(p) == IF content[p] \in {Missing, Malformed} THEN <<>> ELSE content[p]

\* The paths a list of names means in a directory, and those a file includes.
PathsIn(dir, names) == {Resolve[dir][names[k]] : k \in 1 .. Len(names)}
Includes(p) == PathsIn(DirOf[p], Names(p))

\* S has the files of the command line and what its files include.
IsClosed(S) ==
    /\ PathsIn(WorkingDir, roots) \subseteq S
    /\ \A p \in S \cap Path : Includes(p) \subseteq S

\* As many files as can ever be in a list of them: one for each name on the
\* command line and in each of the files.
Inclusions(S) == UNION {{p} \X (1 .. Len(Names(p))) : p \in S}
Total         == Len(roots) + Cardinality(Inclusions(Path))

\* The order a list of files still to do gives, each file putting what it
\* includes before the rest of the list: after n files have been taken from it.
PathList(dir, names) == [k \in 1 .. Len(names) |-> Resolve[dir][names[k]]]

WorkList ==
    LET after[n \in 0 .. Total] ==
            IF n = 0 THEN [todo |-> PathList(WorkingDir, roots), order |-> <<>>]
            ELSE LET w == after[n - 1]
                     p == w.todo[1]
                 IN  IF w.todo = <<>> THEN w
                     ELSE IF \E k \in 1 .. Len(w.order) : w.order[k] = p
                       THEN [w EXCEPT !.todo = Tail(@)]
                       ELSE [todo  |-> PathList(DirOf[p], Names(p)) \o Tail(w.todo),
                             order |-> Append(w.order, p)]
    IN  after
-------------------------------------------------------------------------------
(***************************************************************************)
(* When Parse returns, all the files that can be reached from the command  *)
(* line have been processed and could be read, each name being resolved in *)
(* the directory of the file that has it (ProcessConfigFiles).             *)
(***************************************************************************)
DoneIsComplete ==
    pc = "done" => /\ IsClosed(processed)
                   /\ \A p \in processed : content[p] \notin {Missing, Malformed}

(***************************************************************************)
(* And no other file is ever touched: what is processed lies in every set  *)
(* that has the files of the command line and is closed under inclusion.   *)
(***************************************************************************)
OnlyReachable ==
    \A S \in SUBSET Path : IsClosed(S) => processed \subseteq S

(***************************************************************************)
(* A file's parameters are parsed once, before those of the files it       *)
(* includes, and these before those of the files named after it: the order *)
(* decides which of several values of an option counts.                    *)
(***************************************************************************)
OrderIsDepthFirst == pc = "done" => applied = WorkList[Total].order

\* Files that include each other do not exhaust the stack: a call is made at
\* most once for each file ("Only process each file once").
RecursionIsBounded == Len(calls) <= Cardinality(Path) + 1

\* Parse comes to an end, whatever the files include.
ParseEnds == <>(pc \in {"done", "failed"})
-------------------------------------------------------------------------------
(***************************************************************************)
(* The inductive invariant.  A file that should be processed has been, or  *)
(* its name is still ahead of one of the active calls or of the call that  *)
(* is about to be made; and what is ahead is reachable.                    *)
(***************************************************************************)
AheadOf(call) == {Resolve[call.dir][call.names[k]] : k \in call.at .. Len(call.names)}

Waiting ==
    (UNION {AheadOf(calls[c]) : c \in 1 .. Len(calls)}) \cup PathsIn(callDir, configFile)

ListIsConsumed ==
    /\ pc = "loop" => configFile = <<>> /\ Len(calls) # 0
    /\ pc = "done" => configFile = <<>> /\ Len(calls) = 0

NothingIsLost ==
    pc # "failed" =>
        /\ PathsIn(WorkingDir, roots) \subseteq processed \cup Waiting
        /\ \A p \in processed : /\ content[p] \notin {Missing, Malformed}
                                 /\ Includes(p) \subseteq processed \cup Waiting

NothingIsInvented ==
    \A S \in SUBSET Path : IsClosed(S) => processed \cup Waiting \subseteq S

OneCallPerFile ==
    Len(calls) + (IF pc = "call" THEN 1 ELSE 0) <= Cardinality(processed) + 1

IncludeInvariant ==
    TypeOK /\ ListIsConsumed /\ NothingIsLost /\ NothingIsInvented /\ OneCallPerFile

(***************************************************************************)
(* The inductive invariant of the order.  The files that the active calls  *)
(* still have ahead, those of the latest call first, are the rest of the   *)
(* list that gives the order, after as many as have been taken from it.    *)
(***************************************************************************)
AheadList(call) == PathList(call.dir, SubSeq(call.names, call.at, Len(call.names)))

Rest(stack) ==
    LET rest[c \in 0 .. Len(stack)] == IF c = 0 THEN <<>> ELSE AheadList(stack[c]) \o rest[c - 1]
    IN  rest[Len(stack)]

Todo == (IF pc = "call" THEN PathList(callDir, configFile) ELSE <<>>) \o Rest(calls)

OrderInvariant ==
    pc # "failed" =>
        /\ processed = {applied[k] : k \in 1 .. Len(applied)}
        /\ \E n \in 0 .. Total :
               /\ WorkList[n] = [todo |-> Todo, order |-> applied]
               /\ n + Len(Todo) = Len(roots) + Cardinality(Inclusions(processed))
===============================================================================
