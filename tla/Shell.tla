------------------------------- MODULE Shell -------------------------------
(***************************************************************************)
(* The interactive client (rucbase_client/main.cpp): it cuts what is typed,*)
(* or the text of -e and -f, into statements and sends them one by one.    *)
(*                                                                         *)
(* Client::Execute is one step with the outcomes its caller tells apart:   *)
(* "ok", "error" (the connection is reusable) and "lost" (it is not, and   *)
(* every later call fails the same way).                                   *)
(***************************************************************************)
EXTENDS Lexer

CONSTANTS Chars,       \* characters that are typed
          Outcomes,    \* outcomes of Execute on an open connection
          MaxText      \* bound on the length of the text

ASSUME ShellBounds == MaxText \in Nat /\ Outcomes \subseteq {"ok", "error", "lost"}

VARIABLES
    mode,       \* "start", "text" (-e, -f) and then "run", "prompt", "closed"
    conn,       \* the connection is open
    typed,      \* history: the whole text so far
    line,       \* what getline has read of the current line
    pending,    \* pending of RunInteractive
    queue,      \* statements still to be sent
    sent,       \* statements executed, with their outcomes
    code        \* exit code

vars == <<mode, conn, typed, line, pending, queue, sent, code>>

(* Trim                                                                    *)
Trim(s) ==
    LET body == {i \in DOMAIN s : s[i] # NewLine}
    IN  IF body = {} THEN <<>> ELSE SubSeq(s, Min(body), Max(body))

IsExitCommand(s) == Trim(s) \in {<<Exit>>, <<Exit, ";">>}

(* The loop of TakeCompleteStatements at position i.                       *)
RECURSIVE Scan(_, _, _)
Scan(text, i, st) ==
    IF i > Len(text) THEN st
    ELSE LET ch == text[i]
             Pair(a, b) == Starts(text, i, <<a, b>>)
         IN  CASE st.at = "line" ->
                    Scan(text, i + 1, IF ch = NewLine THEN [st EXCEPT !.at = "sql"] ELSE st)
               [] st.at = "block" ->
                    IF Pair("*", "/") THEN Scan(text, i + 2, [st EXCEPT !.at = "sql"])
                    ELSE Scan(text, i + 1, st)
               [] st.at = "string" ->
                    IF Pair("'", "'") THEN Scan(text, i + 2, st)
                    ELSE Scan(text, i + 1, IF ch = "'" THEN [st EXCEPT !.at = "sql"] ELSE st)
               [] st.at = "sql" /\ Pair("-", "-") -> Scan(text, i + 2, [st EXCEPT !.at = "line"])
               [] st.at = "sql" /\ Pair("/", "*") -> Scan(text, i + 2, [st EXCEPT !.at = "block"])
               [] st.at = "sql" /\ ch = "'" ->
                    Scan(text, i + 1, [st EXCEPT !.at = "string", !.sql = TRUE])
               [] st.at = "sql" /\ ch = ";" ->
                    Scan(text, i + 1,
                         [st EXCEPT !.out = IF st.sql THEN Append(@, SubSeq(text, st.start, i)) ELSE @,
                                    !.start = i + 1, !.sql = FALSE])
               [] OTHER -> Scan(text, i + 1, IF ch = NewLine THEN st ELSE [st EXCEPT !.sql = TRUE])

(* Mutant: a tail without SQL is dropped, also in an open comment.         *)
TakeCompleteClears(text) ==
    LET st == Scan(text, 1, [at |-> "sql", start |-> 1, sql |-> FALSE, out |-> <<>>])
    IN  [statements |-> st.out,
         rest |-> IF ~st.sql THEN <<>> ELSE SubSeq(text, st.start, Len(text))]

(* TakeCompleteStatements: the statements and what it leaves in input.     *)
TakeComplete(text) ==
    LET st == Scan(text, 1, [at |-> "sql", start |-> 1, sql |-> FALSE, out |-> <<>>])
    IN  [statements |-> st.out,
         rest |-> IF ~st.sql /\ st.at # "block" THEN <<>> ELSE SubSeq(text, st.start, Len(text))]

-----------------------------------------------------------------------------

Init ==
    /\ mode = "start" /\ conn = FALSE /\ code = 0
    /\ typed = <<>> /\ line = <<>> /\ pending = <<>> /\ queue = <<>> /\ sent = <<>>

Exits(c) == mode' = "closed" /\ code' = c

(* ConnectTcp; at a prompt also FetchDatabaseName, whose failure is only   *)
(* shown in the prompt.                                                    *)
Connect ==
    /\ mode = "start"
    /\ \/ Exits(1) /\ UNCHANGED conn
       \/ mode' = "text" /\ conn' = TRUE /\ UNCHANGED code
       \/ \E r \in Outcomes : mode' = "prompt" /\ conn' = (r # "lost") /\ UNCHANGED code
    /\ UNCHANGED <<typed, line, pending, queue, sent>>

(* A character arrives: of the text of -e or -f before it is run, or of    *)
(* the current line.                                                       *)
Type(c) ==
    /\ mode \in {"text", "prompt"} /\ queue = <<>>
    /\ mode = "prompt" => c # NewLine
    /\ Len(typed) < MaxText
    /\ typed' = Append(typed, c)
    /\ line' = IF mode = "prompt" THEN Append(line, c) ELSE line
    /\ UNCHANGED <<mode, conn, pending, queue, sent, code>>

(* RunInteractive: the line is complete.                                   *)
ReadLine ==
    /\ mode = "prompt" /\ queue = <<>>
    /\ NewLine \in Chars /\ Len(typed) < MaxText
    /\ typed' = Append(typed, NewLine)
    /\ line' = <<>>
    /\ LET input == pending \o line \o <<NewLine>>
       IN  IF IsExitCommand(input)
           THEN Exits(0) /\ UNCHANGED <<pending, queue>>
           ELSE /\ queue' = TakeComplete(input).statements
                /\ pending' = TakeComplete(input).rest
                /\ UNCHANGED <<mode, code>>
    /\ UNCHANGED <<conn, sent>>

(* RunInteractive: end of input.                                           *)
EndOfInput ==
    /\ mode = "prompt" /\ queue = <<>> /\ line = <<>>
    /\ Exits(0)
    /\ UNCHANGED <<conn, typed, line, pending, queue, sent>>

(* RunScriptFile: the file cannot be read.                                 *)
NoFile ==
    /\ mode = "text" /\ typed = <<>>
    /\ Exits(1)
    /\ UNCHANGED <<conn, typed, line, pending, queue, sent>>

(* RunSqlText: the statements, and the tail as one more.                   *)
RunSqlText ==
    /\ mode = "text"
    /\ LET t == TakeComplete(typed)
           tail == Trim(t.rest)
           all == t.statements \o (IF tail = <<>> THEN <<>> ELSE <<tail>>)
       IN  /\ queue' = all
           /\ IF all = <<>> THEN Exits(0) ELSE mode' = "run" /\ UNCHANGED code
    /\ UNCHANGED <<conn, typed, line, pending, sent>>

(* Mutant: -e and -f go on after a statement failed.                       *)
SendNextGoesOn ==
    /\ mode # "closed" /\ queue # <<>>
    /\ ~IsExitCommand(queue[1])
    /\ \E r \in IF conn THEN Outcomes ELSE {"lost"} :
          /\ sent' = Append(sent, [sql |-> Trim(queue[1]), outcome |-> r])
          /\ conn' = (conn /\ r # "lost")
          /\ queue' = Tail(queue)
          /\ IF mode = "run" /\ queue' = <<>> THEN Exits(0) ELSE UNCHANGED <<mode, code>>
    /\ UNCHANGED <<typed, line, pending>>

(* The loops over the statements in RunSqlText and RunInteractive.         *)
SendNext ==
    /\ mode # "closed" /\ queue # <<>>
    /\ ~IsExitCommand(queue[1])
    /\ \E r \in IF conn THEN Outcomes ELSE {"lost"} :
          /\ sent' = Append(sent, [sql |-> Trim(queue[1]), outcome |-> r])
          /\ conn' = (conn /\ r # "lost")
          /\ IF r = "lost" \/ (mode = "run" /\ r = "error")
             THEN Exits(1) /\ UNCHANGED queue
             ELSE /\ queue' = Tail(queue)
                  /\ IF mode = "run" /\ Len(queue) = 1 THEN Exits(0) ELSE UNCHANGED <<mode, code>>
    /\ UNCHANGED <<typed, line, pending>>

SendExit ==
    /\ mode # "closed" /\ queue # <<>> /\ IsExitCommand(queue[1])
    /\ Exits(0)
    /\ UNCHANGED <<conn, typed, line, pending, queue, sent>>

Next ==
    \/ Connect \/ ReadLine \/ EndOfInput \/ NoFile \/ RunSqlText \/ SendNext \/ SendExit
    \/ \E c \in Chars : Type(c)

Spec == Init /\ [][Next]_vars

-----------------------------------------------------------------------------
(* What the text means to the server: its tokens, cut after each ";".      *)

RECURSIVE Sentences(_, _)
Sentences(tokens, open) ==
    CASE tokens = <<>> -> [complete |-> <<>>, tail |-> open]
      [] tokens # <<>> /\ tokens[1] = <<";">> ->
            LET s == Sentences(Tail(tokens), <<>>)
            IN  [s EXCEPT !.complete =
                    IF open = <<>> THEN @ ELSE <<Append(open, <<";">>)>> \o @]
      [] OTHER -> Sentences(Tail(tokens), Append(open, tokens[1]))

Meaning(text) == Sentences(Tokens(text), <<>>)

(* Types of the client's state; a line being read has no newline.          *)
TypeOK ==
    /\ mode \in {"start", "text", "run", "prompt", "closed"}
    /\ conn \in BOOLEAN /\ code \in {0, 1}
    /\ typed \in Seq(Chars) /\ Len(typed) <= MaxText
    /\ line \in Seq(Chars \ {NewLine})
    /\ pending \in Seq(Chars) /\ queue \in Seq(Seq(Chars))
    /\ sent \in Seq([sql : Seq(Chars), outcome : {"ok", "error", "lost"}])

(* Typed line by line, whatever comments and strings the lines split, the  *)
(* statements sent and waiting are, token by token, those the scanner      *)
(* finds in the text as a whole, and pending holds the rest; an exit line  *)
(* ends the input.                                                         *)
PromptSplitAgrees ==
    mode = "prompt" =>
        LET m == Meaning(SubSeq(typed, 1, Len(typed) - Len(line)))
        IN  /\ [i \in DOMAIN sent |-> Tokens(sent[i].sql)] \o [i \in DOMAIN queue |-> Tokens(queue[i])]
                  = m.complete
            /\ Tokens(pending) = m.tail

(* The statements of -e and -f are those of the text, in order.  The last  *)
(* one may lack its ";".                                                   *)
TextSplitAgrees ==
    mode = "run" =>
        LET m == Meaning(Trim(typed))
            tail == IF m.tail = <<>> THEN <<>> ELSE <<m.tail>>
        IN  [i \in DOMAIN sent |-> Tokens(sent[i].sql)] \o [i \in DOMAIN queue |-> Tokens(queue[i])]
                = m.complete \o tail

(* TakeCompleteStatements and the server's scanner agree on where          *)
(* statements end, at the prompt and in a text.                            *)
SplitAgrees == PromptSplitAgrees /\ TextSplitAgrees

(* -e and -f report success only if no statement failed, and no statement  *)
(* is sent after one that failed (at a prompt: that lost the connection).  *)
(* The variables also keep their types (TypeOK).                           *)
NothingAfterFailure ==
    /\ TypeOK
    /\ \A i \in DOMAIN sent :
          sent[i].outcome = "lost" => i = Len(sent) /\ mode = "closed" /\ code = 1
    /\ mode = "run" => \A i \in DOMAIN sent : sent[i].outcome = "ok"
=============================================================================
