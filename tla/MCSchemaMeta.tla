---------------------------- MODULE MCSchemaMeta ---------------------------
(***************************************************************************)
(* Tables t and t_a, with columns a and b: the index of t on (a, b) and    *)
(* that of t_a on (b) have the same file name.  Column lists at and beyond *)
(* the limit of a record, with int taken to be 16 bits wide.               *)
(***************************************************************************)
EXTENDS SchemaMeta

T == <<"t">>
TA == <<"t", "a">>
A == <<"a">>
B == <<"b">>
MCMapOrder == <<T, TA>>

IntCol(name) == [name |-> name, type |-> "INT", len |-> 4]
CharCol(name, n) == [name |-> name, type |-> "STRING", len |-> n]

MCColumnDefs ==
    {<<IntCol(A)>>, <<IntCol(A), CharCol(B, 508)>>,
     <<CharCol(B, 3), [IntCol(A) EXCEPT !.type = "FLOAT"]>>,
     <<IntCol(A), CharCol(B, 509)>>, <<IntCol(A), IntCol(A)>>, <<CharCol(A, 0)>>,
     <<CharCol(A, 1), CharCol(B, 32767), CharCol(<<"c">>, 32767), CharCol(<<"d">>, 2)>>}
MCIndexColumns == {<<A>>, <<B>>, <<A, B>>, <<B, A>>, <<A, A>>}

(* Documents of other versions of the program, or edited: one table.       *)
Col(name, type, n) == [name |-> name, type |-> type, length |-> n]
Cols == {<<Col(A, "INT", 4), Col(B, "STRING", 508)>>}
BadCols ==
    {Bad, <<>>, <<Bad>>, <<Col(Bad, "INT", 4)>>, <<Col(A, Bad, 4)>>, <<Col(A, "INT", Bad)>>,
     <<Col(A, "FLOAT", 8)>>, <<Col(A, "STRING", 0)>>, <<Col(A, "INT", 4), Col(A, "INT", 4)>>,
     <<Col(A, "INT", 4), Col(B, "STRING", 509)>>, <<Col(A, "STRING", 40000)>>}
Index(cols, unique) == [columns |-> cols, unique |-> unique]
Indexes ==
    {<<>>, Bad, <<Bad>>, <<Index(Bad, TRUE)>>, <<Index(<<>>, TRUE)>>, <<Index(<<Bad>>, TRUE)>>,
     <<Index(<<B, B>>, TRUE)>>, <<Index(<<<<"c">>>>, TRUE)>>, <<Index(<<A>>, Bad)>>,
     <<Index(<<A>>, TRUE), Index(<<A>>, FALSE)>>,
     <<Index(<<A>>, Missing), Index(<<B, A>>, TRUE)>>}
Table(cols, indexes) == [name |-> T, columns |-> cols, indexes |-> indexes]
Doc(tables) == [database |-> <<"d">>, tables |-> tables]

MCOlderMetas ==
    {Doc(<<Table(c, x)>>) : c \in Cols, x \in Indexes}
    \cup {Doc(<<Table(c, <<>>)>>) : c \in BadCols}
    \cup {Doc(<<Table(<<Col(A, "INT", 65540)>>, <<>>)>>),      \* 4 once it is an int
          Doc(<<Table(CHOOSE c \in Cols : TRUE, <<>>), Table(CHOOSE c \in Cols : TRUE, <<>>)>>),
          Doc(<<>>), Doc(Bad), Doc(<<Bad>>), [Doc(<<>>) EXCEPT !.database = Bad], Bad}
=============================================================================
