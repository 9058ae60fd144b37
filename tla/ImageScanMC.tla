----------------------------- MODULE ImageScanMC -----------------------------
(* Images of a few bytes around one that is accepted: every content with   *)
(* one or two sections anywhere, and every header with one section.        *)
EXTENDS ImageScan

MCSignature == <<1, 1>>

Size == 5
Top == Size + 3

Bytes == {[a \in 0 .. Top |-> IF a < Size THEN b[a] ELSE 1] : b \in [0 .. Size - 1 -> {0, 1}]}
Plain == [a \in 0 .. Top |-> IF a \in {3, 4} THEN 1 ELSE 0]

Made(f, s, r, b) ==
    [spread |-> FALSE, size |-> Size, wellformed |-> TRUE, lfanew |-> f, sections |-> s,
     readable |-> r, byte |-> b]

Lengths == {0, 1, 2, 4, 5}
Code == {[text |-> TRUE, start |-> a, length |-> n] : a \in {0, 2, 3, 6}, n \in Lengths}
Data == {[text |-> FALSE, start |-> 6, length |-> 9], [text |-> FALSE, start |-> 0, length |-> 5]}

Contents == {Made(1, s, 0 .. Top, b) :
               s \in {<<c>> : c \in Code}
                     \cup {<<c, d>> : c \in Code, d \in Code \cup Data}
                     \cup {<<d, c>> : c \in Code, d \in Data},
               b \in Bytes}

Headers == {[Made(f, s, (0 .. Top) \ h, Plain) EXCEPT !.wellformed = w, !.size = z] :
              f \in -1 .. Top, w \in BOOLEAN, z \in {0, 3, 4, 5},
              h \in {{}} \cup {{a} : a \in 0 .. Size},
              s \in {<<>>} \cup {<<c>> : c \in Code} \cup
                    {<<c, d, c>> : c \in Code, d \in Data}}

MCImages == {[i EXCEPT !.spread = v] : i \in Contents \cup Headers, v \in BOOLEAN}
=============================================================================
