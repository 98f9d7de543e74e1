----------------------------- MODULE MCChatServer -----------------------------
(* Small instances of ChatServer for TLC. *)
EXTENDS ChatServer, TLC

CONSTANTS c1, c2, c3, w1, w2, f1, f2, f3, n1, n2

AnyLogin == [c \in Conns |-> Names]
OwnLogin == [c \in Conns |-> IF c = c1 THEN {n1} ELSE {n2, None}]
OneName == [c \in Conns |-> {n1}]
TwoReceivers == [c \in Conns |-> IF c = c1 THEN {n2} ELSE {n1}]

Ask(types, names) == [type : types, name : names, count : {0}]
Say == Ask({"TEXT"}, {None})

AllSay == [c \in Conns |-> Say]
WhisperTo1 == [c \in Conns |-> IF c = c1 THEN Ask({"PRIVATE"}, {n1, None}) ELSE {}]
\* The last 3 records are all there are: two of c2 and one of c1 before it asks.
SayHistory == [c \in Conns |-> Say \cup
                 IF c = c1 THEN [type : {"HISTORY"}, name : {None}, count : {0, 3}]
                 ELSE Ask({"LIST"}, {None})]
SayAndList == [c \in Conns |-> IF c = c1 THEN Say ELSE Ask({"LIST"}, {None})]
AskBack == [c \in Conns |-> Say \cup Ask({"HISTORY"}, {None})]
Silent == [c \in Conns |-> {}]

Never == [c \in Conns |-> 0]
Once == [c \in Conns |-> 1]
Twice == [c \in Conns |-> 2]
Thrice == [c \in Conns |-> 3]

SymmetryWF == Permutations(Workers) \cup Permutations(Fds)
SymmetryWF23 == SymmetryWF \cup Permutations({c2, c3})
SymmetryAll == SymmetryWF \cup Permutations(Nicks) \cup Permutations(Conns)
=============================================================================
