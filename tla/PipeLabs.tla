------------------------------ MODULE PipeLabs ------------------------------
(***************************************************************************)
(* The three programs of systems-programming/ with two processes and       *)
(* pipes: lab8_2.c (positive numbers to a file), lab8_3.c (commands to     *)
(* gnuplot) and lab8_5.c (sum and average over two pipes).                 *)
(*                                                                         *)
(* All three are built alike: one process, the writer, asks the user and   *)
(* writes what it got to a pipe until the ending is entered; the other,    *)
(* the reader, works on what it reads.  The writer is the child in lab8_2  *)
(* and the parent in the other two.  The kernel's part is modelled from    *)
(* how the programs use it: a pipe of bounded capacity, end of file when   *)
(* the last write end is closed, SIGPIPE when the last read end is.        *)
(***************************************************************************)
EXTENDS Integers, Sequences, SequencesExt

CONSTANTS Labs,         \* which of the programs
          Numbers,      \* what the user of lab8_2 and lab8_5 may enter
          INT_MAX,      \* the largest int
          Capacity,     \* what a pipe holds, in whole writes
          MayBeKilled,  \* may a process be killed from outside?
          NaN,          \* the double 0.0 / 0
          Garbage,      \* a double that was never assigned
          MaxRounds     \* bound: rounds of a loop

ASSUME PipeAssumption ==
    /\ Labs \subseteq {"lab8_2", "lab8_3", "lab8_5"}
    /\ INT_MAX \in Nat
    /\ Numbers \subseteq -INT_MAX - 1 .. INT_MAX
    /\ Capacity \in Nat \ {0} /\ MaxRounds \in Nat
    /\ MayBeKilled \in BOOLEAN

VARIABLES
    lab,                      \* the program that runs
    pc,                       \* where its two processes are
    input,                    \* the writer's variable (cmd in lab8_3)
    scanned,                  \* history: what it held after each scanf or fgets
    sent,                     \* how many writes to the pipe
    pipe,                     \* pfd, pfd1
    file,                     \* lab8_2: positives.txt and its buffer
    readData, sum, readDataCounter,  \* lab8_5: the child's
    replies,                  \* lab8_5: pfd2
    got                       \* lab8_5: the parent's sum and avg

writerVars == <<input, scanned, sent>>
childVars == <<readData, sum, readDataCounter>>
replyVars == <<replies, got>>
vars == <<lab, pc, writerVars, pipe, file, childVars, replyVars>>

Int32 == -INT_MAX - 1 .. INT_MAX

\* Arithmetic of the build: two's complement.
Wrap(n) == ((n + INT_MAX + 1) % (2 * INT_MAX + 2)) - INT_MAX - 1

\* The quotient of two ints as doubles, kept as its operands.
Average(s, n) == IF n = 0 THEN NaN ELSE <<s, n>>

\* What one fgets of 49 characters may return: a command, "quit", the ending
\* (with or without a semicolon), of which each may be the rest of a longer
\* line; and a string that a NUL at its beginning makes empty.
Commands == {"plot", "quit", "exit", ""}

\* What the user may enter, and what the writer's variable may hold; cmd is
\* unset before the first fgets, input is -1.
Inputs == IF lab = "lab8_3" THEN Commands ELSE Numbers
Held == IF lab = "lab8_3" THEN Commands ELSE Numbers \cup {-1}
IsEnding(x) == IF lab = "lab8_3" THEN x = "exit" ELSE x = 0

Gone(p) == pc[p] \in {"ended", "failed", "killed"}
At(p, from, to) == pc[p] = from /\ pc' = [pc EXCEPT ![p] = to]

TypeOK ==
    /\ lab \in Labs
    /\ pc \in [{"writer", "reader"} ->
                  {"start", "scanf", "read", "write", "close", "read sum",
                   "read avg", "write sum", "write avg", "wait",
                   "ended", "failed", "killed"}]
    /\ input \in Held
    /\ \A i \in DOMAIN scanned : scanned[i] \in Held
    /\ Len(scanned) <= MaxRounds /\ sent <= Len(scanned) /\ Len(pipe) <= Capacity
    /\ \A i \in DOMAIN file : file[i] \in Numbers
    /\ {readData, sum, got.sum} \subseteq Int32
    /\ readDataCounter \in 0 .. 2 * MaxRounds
    /\ Len(replies) <= 2

Init ==
    /\ lab \in Labs
    /\ pc = [writer |-> "scanf",
             reader |-> IF lab = "lab8_5" THEN "read" ELSE "start"]
    /\ input \in IF lab = "lab8_3" THEN Commands ELSE {-1}
    /\ scanned = <<>> /\ sent = 0
    /\ pipe = <<>>
    /\ file = <<>>
    /\ readData = -1 /\ sum = 0 /\ readDataCounter = 0
    /\ replies = <<>>
    /\ got = [sum |-> 0, avg |-> Garbage]
-----------------------------------------------------------------------------
(* The writer's loop.                                                      *)

\* scanf or fgets, whose result is not looked at.  At the end of the input, or
\* when scanf finds no number, the variable stays as it was: a word fails every
\* scanf from then on, a lone sign only this one, which consumes it.
ReadInput ==
    /\ At("writer", "scanf", "write")
    /\ sent < MaxRounds
    /\ input' \in Inputs \/ UNCHANGED input
    /\ scanned' = Append(scanned, input')
    /\ UNCHANGED <<lab, sent, pipe, file, childVars, replyVars>>

ReadEndOpen == pc["reader"] \in {"start", "read", "wait"}

\* Only a command can have no bytes.
SomethingToWrite == lab = "lab8_3" => input # ""

\* A plausible slip: the test for the ending is missing.
Send_NoBreak ==
    /\ At("writer", "write", "scanf")
    /\ SomethingToWrite /\ ReadEndOpen /\ Len(pipe) < Capacity
    /\ pipe' = Append(pipe, input)
    /\ sent' = sent + 1
    /\ UNCHANGED <<lab, input, scanned, file, childVars, replyVars>>

\* write, which waits for room; then the test for the ending.
Send ==
    /\ At("writer", "write", IF IsEnding(input) THEN "close" ELSE "scanf")
    /\ SomethingToWrite /\ ReadEndOpen /\ Len(pipe) < Capacity
    /\ pipe' = Append(pipe, input)
    /\ sent' = sent + 1
    /\ UNCHANGED <<lab, input, scanned, file, childVars, replyVars>>

\* write without a reader: SIGPIPE.
BrokenPipe(fate) ==
    /\ At("writer", "write", fate)
    /\ SomethingToWrite /\ ~ReadEndOpen
    /\ UNCHANGED <<lab, writerVars, pipe, file, childVars, replyVars>>

CloseWriteEnd(next) ==
    /\ At("writer", "close", next)
    /\ UNCHANGED <<lab, writerVars, pipe, file, childVars, replyVars>>

\* waitpid, and the end of main.
WaitForChild(parent, child) ==
    /\ At(parent, "wait", "ended")
    /\ Gone(child)
    /\ UNCHANGED <<lab, writerVars, pipe, file, childVars, replyVars>>

\* A plausible slip: the reader keeps its own copy of the write end.
EndOfFile_OwnCopy == FALSE

\* A read of an empty pipe returns 0 once no process has the write end open;
\* the reader has closed its own copy after the fork.
EndOfFile == pipe = <<>> /\ pc["writer"] \notin {"scanf", "write", "close"}

\* A plausible slip: any number that is not positive ends the reader's loop.
IsLast_NotPositive(n) == n <= 0

\* What ends the reader's loop of lab8_2 and lab8_5.
IsLast(n) == n = 0
-----------------------------------------------------------------------------
(* lab8_2: the child writes, the parent keeps the positive numbers.        *)

lab8_2_child ==
    /\ lab = "lab8_2"
    /\ Send \/ BrokenPipe("killed") \/ CloseWriteEnd("ended")

OpenFile ==
    /\ lab = "lab8_2"
    /\ At("reader", "start", "read") \/ At("reader", "start", "failed")
    /\ UNCHANGED <<lab, writerVars, pipe, file, childVars, replyVars>>

\* The loop ends with 0 or with the end of the file.
ReadNumber ==
    /\ lab = "lab8_2"
    /\ \/ /\ pipe # <<>>
          /\ pipe' = Tail(pipe)
          /\ At("reader", "read", IF IsLast(Head(pipe)) THEN "wait" ELSE "read")
          /\ file' = IF Head(pipe) > 0 THEN Append(file, Head(pipe)) ELSE file
       \/ /\ EndOfFile
          /\ At("reader", "read", "wait")
          /\ UNCHANGED <<pipe, file>>
    /\ UNCHANGED <<lab, writerVars, childVars, replyVars>>

lab8_2_parent == OpenFile \/ ReadNumber \/ (lab = "lab8_2" /\ WaitForChild("reader", "writer"))
-----------------------------------------------------------------------------
(* lab8_3: the parent writes, the child is gnuplot.                        *)

\* signalHandler ends the parent, as if all was well.
signalHandler == BrokenPipe("ended")

\* write of no bytes: it returns at once, whether or not there is room in the
\* pipe or somebody to read it.
SendNothing ==
    /\ At("writer", "write", "scanf")
    /\ ~SomethingToWrite
    /\ sent' = sent + 1
    /\ UNCHANGED <<lab, input, scanned, pipe, file, childVars, replyVars>>

lab8_3_parent ==
    /\ lab = "lab8_3"
    /\ \/ Send \/ SendNothing \/ signalHandler \/ CloseWriteEnd("wait")
       \/ WaitForChild("writer", "reader")

\* dup2 and execl, of which either may fail.
ExecGnuplot ==
    /\ lab = "lab8_3"
    /\ At("reader", "start", "read") \/ At("reader", "start", "failed")
    /\ UNCHANGED <<lab, writerVars, pipe, file, childVars, replyVars>>

\* gnuplot ends with "exit", "quit" or its input.
Gnuplot ==
    /\ lab = "lab8_3"
    /\ \/ /\ pipe # <<>>
          /\ pipe' = Tail(pipe)
          /\ At("reader", "read", IF Head(pipe) = "plot" THEN "read" ELSE "ended")
       \/ /\ EndOfFile
          /\ At("reader", "read", "ended")
          /\ UNCHANGED pipe
    /\ UNCHANGED <<lab, writerVars, file, childVars, replyVars>>
-----------------------------------------------------------------------------
(* lab8_5: the parent writes, the child adds up and answers.               *)

\* Plausible slips: the sum is wider than the int that carries it; the number
\* before the one just read is added.
Added_Wider(n) == sum + n
Added_Early(n) == Wrap(sum + readData)

Added(n) == Wrap(sum + n)

\* One round of the child's loop.  Only a failing read ends it besides 0; at
\* the end of the file readData stays as it was and is added again.
AddNumber ==
    /\ lab = "lab8_5"
    /\ \/ pipe # <<>> /\ readData' = Head(pipe) /\ pipe' = Tail(pipe)
       \/ EndOfFile /\ UNCHANGED <<readData, pipe>>
    /\ \/ /\ IsLast(readData')
          /\ At("reader", "read", "write sum")
          /\ UNCHANGED <<sum, readDataCounter>>
       \/ /\ ~IsLast(readData')
          /\ At("reader", "read", "read")
          /\ readDataCounter < 2 * MaxRounds
          /\ sum' = Added(readData')
          /\ readDataCounter' = readDataCounter + 1
    /\ UNCHANGED <<lab, writerVars, file, replyVars>>

\* write to the second pipe; SIGPIPE when the parent has gone.
Reply(value, from, to) ==
    /\ \/ /\ ~Gone("writer")
          /\ At("reader", from, to)
          /\ replies' = Append(replies, value)
       \/ /\ Gone("writer")
          /\ At("reader", from, "killed")
          /\ UNCHANGED replies
    /\ UNCHANGED <<lab, writerVars, pipe, file, childVars, got>>

lab8_5_child ==
    \/ AddNumber
    \/ /\ lab = "lab8_5"
       /\ \/ Reply(sum, "write sum", "write avg")
          \/ Reply(Average(sum, readDataCounter), "write avg", "ended")

\* read from the second pipe: at its end the variable stays as it was.
ReadReply(field, from, to) ==
    /\ At("writer", from, to)
    /\ \/ /\ replies # <<>>
          /\ got' = [got EXCEPT ![field] = Head(replies)]
          /\ replies' = Tail(replies)
       \/ /\ replies = <<>> /\ Gone("reader")
          /\ UNCHANGED replyVars
    /\ UNCHANGED <<lab, writerVars, pipe, file, childVars>>

lab8_5_parent ==
    /\ lab = "lab8_5"
    /\ \/ Send \/ BrokenPipe("killed") \/ CloseWriteEnd("read sum")
       \/ ReadReply("sum", "read sum", "read avg")
       \/ ReadReply("avg", "read avg", "wait")
       \/ WaitForChild("writer", "reader")
-----------------------------------------------------------------------------
\* A signal from outside ends one process: not a 0, nor an end the other
\* was told of.
Kill(p) ==
    /\ MayBeKilled
    /\ ~Gone(p)
    /\ pc' = [pc EXCEPT ![p] = "killed"]
    /\ UNCHANGED <<lab, writerVars, pipe, file, childVars, replyVars>>

WriterStep == lab8_2_child \/ lab8_3_parent \/ lab8_5_parent
ReaderStep == lab8_2_parent \/ ExecGnuplot \/ Gnuplot \/ lab8_5_child

Next == ReadInput \/ WriterStep \/ ReaderStep \/ \E p \in DOMAIN pc : Kill(p)

Spec == Init /\ [][Next]_vars

\* Both processes run; the user need not enter anything.
FairSpec == Spec /\ WF_vars(WriterStep) /\ WF_vars(ReaderStep)
-----------------------------------------------------------------------------
\* What has been written to the pipe so far.
Sent == SubSeq(scanned, 1, sent)

\* What a list of numbers comes to, number by number: the positive ones in
\* their order, and the sum.
Tally(s) ==
    LET tally[n \in 0 .. Len(s)] ==
          IF n = 0 THEN [positives |-> <<>>, total |-> 0]
          ELSE LET before == tally[n - 1] IN
               [positives |-> IF s[n] > 0 THEN Append(before.positives, s[n])
                                          ELSE before.positives,
                total |-> before.total + s[n]]
    IN  tally[Len(s)]

Positives(s) == Tally(s).positives
Total(s) == Tally(s).total

\* lab8_2: the file and the pipe together hold the positive numbers sent, in
\* their order, and in the end the file holds them all: each number once when it
\* is entered, and once more for each scanf that finds none.  Negative numbers, a
\* full pipe and a killed child lose nothing (lab8_2.c:42-52, 66-80).
FileHoldsWhatWasSent ==
    lab = "lab8_2" =>
        /\ pc["reader"] = "read" => file \o Positives(pipe) = Positives(Sent)
        /\ pc["reader"] \in {"wait", "ended"} => file = Positives(Sent)

\* lab8_5: the child has added each number it was sent once, in two's
\* complement; only when its parent was killed, and after everything the
\* parent wrote, does it add the last one again (lab8_5.c:91-104).
EachAddedOnce ==
    LET taken == SubSeq(Sent, 1, sent - Len(pipe))
        again == readDataCounter - Len(taken) IN
    lab = "lab8_5" /\ pc["reader"] = "read" =>
        /\ again >= 0
        /\ again > 0 => pc["writer"] = "killed" /\ pipe = <<>>
        /\ sum = Wrap(Total(taken) + again * readData)

\* lab8_5: what the parent prints is the sum and the average of the numbers it
\* has sent, the 0 apart: those entered, each once more for every scanf that found
\* no number after it.  The average is not a number exactly when there was none
\* but 0.  Only a child that was killed leaves the parent with the 0 and the
\* garbage it began with, which it prints all the same (lab8_5.c:67-81).
ReportIsTrue ==
    LET answer == Wrap(Total(scanned)) IN
    lab = "lab8_5" /\ pc["writer"] \in {"wait", "ended"} =>
        /\ got.sum = answer \/ (got.sum = 0 /\ pc["reader"] = "killed")
        /\ \/ got.avg = Average(answer, Len(scanned) - 1)
           \/ got.avg = Garbage /\ pc["reader"] = "killed"

\* "The program ends when the user enters 0" (lab8_2.c:18, lab8_5.c:18; "exit"
\* in lab8_3.c:80): the ending ends the writer, even at a full pipe, and once
\* it is written both processes end, whoever is killed.
EndingEnds ==
    /\ pc["writer"] = "write" /\ IsEnding(input) ~> Gone("writer")
    /\ pc["writer"] = "close" ~> Gone("writer") /\ Gone("reader")

\* Nobody is left waiting for a process that has gone: the readers of lab8_2
\* and lab8_3 see the end of the file, a writer with something to write gets
\* SIGPIPE.  The child of lab8_5 looks for no end of file (lab8_5.c:93), and a
\* command of no bytes tells the parent of lab8_3 nothing (lab8_3.c:84).
NobodyLeftAlone ==
    /\ lab # "lab8_5" /\ Gone("writer") ~> Gone("reader")
    /\ Gone("reader") /\ pc["writer"] # "scanf" /\ SomethingToWrite ~> Gone("writer")
=============================================================================
