-------------------------- MODULE AbstractPipeline --------------------------
(***************************************************************************)
(* What the pthreads program promises (main.cpp: Reader(n, ...) and        *)
(* Writer(n, ...)): it reads n lines, writes each line it has read, and   *)
(* returns once all n are written.  One step reads a line, writes one, or *)
(* ends the program; nothing happens after the end.  Which thread carries *)
(* a line, and through which queues, is not part of this view.           *)
(***************************************************************************)
EXTENDS Naturals

CONSTANT Lines               \* n = atoi(argv[1])

VARIABLES read,              \* lines read from the input file
          written,           \* lines written to the output file
          done               \* the program has returned
avars == <<read, written, done>>

Init == read = 0 /\ written = 0 /\ done = FALSE

ReadLine == /\ ~done /\ read < Lines
            /\ read' = read + 1 /\ UNCHANGED <<written, done>>

\* Only a line already read can be written.
WriteLine == /\ ~done /\ written < read
             /\ written' = written + 1 /\ UNCHANGED <<read, done>>

\* The program ends only with every line written.
Exit == /\ ~done /\ written = Lines
        /\ done' = TRUE /\ UNCHANGED <<read, written>>

Next == ReadLine \/ WriteLine \/ Exit

\* Every line is read and written, and the program returns.
Spec == Init /\ [][Next]_avars
        /\ WF_avars(ReadLine) /\ WF_avars(WriteLine) /\ WF_avars(Exit)
=============================================================================
