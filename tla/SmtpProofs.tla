----------------------------- MODULE SmtpProofs -----------------------------
(***************************************************************************)
(* Theorems about SmtpClient, for replies of any number of lines.          *)
(***************************************************************************)
EXTENDS SmtpClient, SequenceTheorems, LeastNumber, TLAPS

USE SmtpAssumption

HasLast(lines) == LastLines(lines) # {}

\* The reply that lines begin with, or go on with, is the one to AUTH.
BeginWithAuth(lines) ==
    \A i \in DOMAIN lines : lines[i].to = "AUTH" \/ \E j \in 1 .. i - 1 : lines[j].last

\* About to send: nothing is under way but, perhaps, the text of the letter.
Sending ==
    /\ cmd # "greeting" /\ buffer = <<>> /\ toClient = <<>>
    /\ toServer = <<>> \/ (cmd = "." /\ toServer = <<"text">> /\ server = "data")
    /\ cmd \in {"text", "."} => server \in {"data", "gone"}
    /\ cmd = "QUIT" => taken
    /\ server \notin {"listening", "greeting"}

\* One line of the reply that is waited for.
Awaits(line) ==
    /\ line.to = cmd
    /\ ~ trouble => line.code = Wanted(cmd)
    /\ cmd = "AUTH" => line.code \in {235, 500}
    /\ cmd = "DATA" /\ line.code = 354 => server \in {"data", "gone"}
    /\ cmd = "." /\ line.code = 250 => taken

\* Waiting: the command is on its way, or its reply is, or neither will ever come.
Waiting ==
    /\ cmd \in Awaited /\ buffer = <<>> /\ server # "listening"
    /\ \/ toServer = <<>>
       \/ toServer = <<cmd>> /\ cmd # "greeting"
       \/ toServer = <<"text", ".">> /\ cmd = "."
    /\ cmd = "." /\ toServer # <<>> => server = "data"
    /\ toServer # <<>> => toClient = <<>> /\ server # "greeting"
    /\ toServer = <<>> /\ toClient = <<>> => server \in {"greeting", "gone"}
    /\ server = "greeting" => cmd = "greeting" /\ toClient = <<>>
    /\ \A i \in DOMAIN toClient :
         Awaits(toClient[i]) /\ (toClient[i].last <=> i = Len(toClient))

\* The reply to AUTH was not waited for: it will be taken for the one to MAIL,
\* and it cannot be a good one.
Shifted ==
    /\ cmd = "MAIL" /\ server \notin {"listening", "greeting"}
    /\ BeginWithAuth(buffer \o toClient)
    /\ \A i \in DOMAIN (buffer \o toClient) :
         (buffer \o toClient)[i].to = "AUTH" => (buffer \o toClient)[i].code \in {235, 500}
    /\ \/ server = "gone"
       \/ HasLast(buffer \o toClient)
       \/ toServer # <<>> /\ Head(toServer) = "AUTH"

SmtpInductive ==
    /\ SmtpTypeOK
    /\ InStep
    /\ impatient => trouble
    /\ pc = "connect" =>
         /\ cmd = "greeting" /\ server = "listening" /\ ~ impatient
         /\ buffer = <<>> /\ toClient = <<>> /\ toServer = <<>>
    /\ pc = "send" /\ ~ impatient => Sending
    /\ pc = "wait" /\ ~ impatient => Waiting
    /\ pc \in {"send", "wait"} /\ impatient => Shifted
    /\ pc = "end" => (result \in {"sent", "thrown"} => taken) /\ (~ trouble => result = "sent")
-----------------------------------------------------------------------------
(* Sequences of lines.                                                     *)

\* The lines of one reply to a command.
IsReply(r, c, code) ==
    /\ r # <<>>
    /\ \A i \in 1 .. Len(r) : r[i].to = c /\ r[i].code = code /\ r[i].last = (i = Len(r))

\* A reply is some lines more.
LEMMA ReplyLines ==
    ASSUME NEW c \in Commands \cup {"greeting"}, NEW code \in Codes,
           toClient \in Seq(Lines), Reply(c, code)
    PROVE  \E r \in Seq(Lines) : toClient' = toClient \o r /\ IsReply(r, c, code)
<1>1. PICK n \in 1 .. MaxLines :
        toClient' = toClient \o
            [i \in 1 .. n |-> [code |-> code, last |-> i = n, to |-> c]]
  BY DEF Reply
<1> DEFINE r == [i \in 1 .. n |-> [code |-> code, last |-> i = n, to |-> c]]
<1>2. n \in Nat /\ n > 0
  OBVIOUS
<1>3. r \in Seq(Lines)
  <2>1. r \in [1 .. n -> Lines]
    BY DEF Lines
  <2> QED BY <1>2, <2>1
<1>4. Len(r) = n
  BY <1>2
<1>5. \A i \in 1 .. n : r[i].to = c /\ r[i].code = code /\ r[i].last = (i = n)
  OBVIOUS
<1>6. toClient' = toClient \o r
  BY <1>1
<1>7. r # <<>>
  <2> HIDE DEF r
  <2> QED BY <1>2, <1>4, EmptySeq
<1> HIDE DEF r
<1>8. IsReply(r, c, code)
  BY <1>4, <1>5, <1>7 DEF IsReply
<1> QED BY <1>3, <1>6, <1>8

\* Reading moves lines, and loses none.
LEMMA ReadLines ==
    ASSUME buffer \in Seq(Lines), toClient \in Seq(Lines), NEW n \in 0 .. Len(toClient)
    PROVE  /\ SubSeq(toClient, 1, n) \in Seq(Lines)
           /\ Len(SubSeq(toClient, 1, n)) = n
           /\ SubSeq(toClient, n + 1, Len(toClient)) \in Seq(Lines)
           /\ Len(SubSeq(toClient, n + 1, Len(toClient))) = Len(toClient) - n
           /\ buffer \o SubSeq(toClient, 1, n) \in Seq(Lines)
           /\ (buffer \o SubSeq(toClient, 1, n)) \o SubSeq(toClient, n + 1, Len(toClient))
                = buffer \o toClient
<1> DEFINE s == SubSeq(toClient, 1, n)
           t == SubSeq(toClient, n + 1, Len(toClient))
<1>0. Len(toClient) \in Nat
  BY LenProperties
<1>1. s \in Seq(Lines) /\ Len(s) = n
  <2>1. \A i \in 1 .. n : toClient[i] \in Lines
    BY <1>0, ElementOfSeq
  <2> QED BY <1>0, <2>1, SubSeqProperties
<1>2. t \in Seq(Lines) /\ Len(t) = Len(toClient) - n
  <2>1. \A i \in n + 1 .. Len(toClient) : toClient[i] \in Lines
    BY <1>0, ElementOfSeq
  <2>2. n + 1 \in Int /\ Len(toClient) \in Int
    BY <1>0
  <2>3. t \in Seq(Lines) /\ Len(t) = IF n + 1 <= Len(toClient) THEN Len(toClient) - (n + 1) + 1 ELSE 0
    BY <2>1, <2>2, SubSeqProperties
  <2> QED BY <2>3, <1>0
<1>3. s \o t = toClient
  <2>0. 1 \in 1 .. Len(toClient) + 1 /\ n \in 1 - 1 .. Len(toClient)
          /\ Len(toClient) \in n .. Len(toClient)
    BY <1>0
  <2>1. s \o t = SubSeq(toClient, 1, Len(toClient))
    BY <2>0, ConcatAdjacentSubSeq
  <2> QED BY <2>1, SubSeqFull
<1>4. buffer \o s \in Seq(Lines)
  BY <1>1, ConcatProperties
<1>5. (buffer \o s) \o t = buffer \o (s \o t)
  <2> HIDE DEF s, t
  <2> QED BY <1>1, <1>2, ConcatAssociative
<1> QED BY <1>1, <1>2, <1>3, <1>4, <1>5

\* A reply is lengthened by a line like its first, put before it.
LEMMA LineAdded ==
    ASSUME NEW lines \in Seq(Lines), lines # <<>>
    PROVE  LET x == [Head(lines) EXCEPT !.last = FALSE]
           IN  /\ x \in Lines /\ ~ x.last /\ x.to = lines[1].to /\ x.code = lines[1].code
               /\ <<x>> \in Seq(Lines) /\ Len(<<x>>) = 1 /\ <<x>>[1] = x
               /\ <<x>> \o lines \in Seq(Lines)
<1> DEFINE x == [Head(lines) EXCEPT !.last = FALSE]
<1>1. Head(lines) \in Lines /\ Head(lines) = lines[1]
  BY HeadTailProperties
<1>2. x \in Lines /\ ~ x.last /\ x.to = lines[1].to /\ x.code = lines[1].code
  BY <1>1 DEF Lines
<1> HIDE DEF x
<1>3. <<x>> \in Seq(Lines) /\ Len(<<x>>) = 1 /\ <<x>>[1] = x
  BY <1>2
<1>4. <<x>> \o lines \in Seq(Lines)
  BY <1>3, ConcatProperties
<1> QED BY <1>2, <1>3, <1>4 DEF x

\* Where a reply ends in a sequence that holds one in full.
LEMMA EndOfReplyIsFirst ==
    ASSUME NEW lines \in Seq(Lines), HasLast(lines)
    PROVE  /\ EndOfReply(lines) \in 1 .. Len(lines) /\ lines[EndOfReply(lines)].last
           /\ \A j \in 1 .. EndOfReply(lines) - 1 : ~ lines[j].last
<1> DEFINE S == LastLines(lines)
<1>1. DOMAIN lines = 1 .. Len(lines) /\ Len(lines) \in Nat
  BY LenProperties
<1>2. S \subseteq Nat /\ S # {}
  BY <1>1 DEF HasLast, LastLines
<1>3. \E i \in S : \A j \in S : i <= j
  <2> HIDE DEF S
  <2> QED BY <1>2, LeastNumber
<1>4. EndOfReply(lines) \in S /\ \A j \in S : EndOfReply(lines) <= j
  BY <1>3 DEF EndOfReply
<1> QED BY <1>1, <1>2, <1>4 DEF LastLines
-----------------------------------------------------------------------------
(* Types.                                                                  *)

\* Where the client goes from sending or waiting.
LEMMA ClientMoves ==
    ASSUME SmtpTypeOK, pc \in {"send", "wait"}, GiveUp \/ (cmd # "QUIT" /\ Proceed(cmd))
    PROVE  /\ pc' \in {"send", "end"} /\ cmd' \in Commands \cup {"greeting"}
           /\ result' \in {None, "sent", "unsent", "thrown"}
           /\ pc' = "end" <=> result' # None
BY DEF SmtpTypeOK, GiveUp, Proceed, Return, After, Commands

\* Every step keeps the types.
LEMMA SmtpTypeStep ==
    ASSUME SmtpInductive, Next
    PROVE  SmtpTypeOK'
<1> USE DEF SmtpInductive, SmtpTypeOK, client, network
<1> DEFINE ClientOK ==
             /\ pc' \in {"connect", "send", "wait", "end"}
             /\ cmd' \in Commands \cup {"greeting"}
             /\ result' \in {None, "sent", "unsent", "thrown"}
             /\ pc' = "end" <=> result' # None
<1>1. CASE Connect
  BY <1>1 DEF Connect
<1>2. CASE ConnectFails
  BY <1>2 DEF ConnectFails, Return
<1>3. CASE Send \/ SendFails
  <2>1. PICK n \in 0 .. Len(toClient) : Read(n)
    BY <1>3 DEF Send, SendFails, Write
  <2>2. buffer' \in Seq(Lines) /\ toClient' \in Seq(Lines)
    BY <2>1, ReadLines DEF Read
  <2>3. cmd \in Commands
    BY <1>3 DEF Send, SendFails, Sending, Shifted, Commands
  <2>4. toServer' \in Seq(Commands)
    <3>1. toServer' = IF server = "gone" THEN toServer ELSE Append(toServer, cmd)
      BY <1>3 DEF Send, SendFails, Write
    <3>2. Append(toServer, cmd) \in Seq(Commands)
      BY <2>3, AppendProperties
    <3> QED BY <3>1, <3>2
  <2>5. ClientOK
    BY <1>3, ClientMoves DEF Send, SendFails, Return
  <2>6. UNCHANGED <<auth, server, taken, passed>>
          /\ trouble' \in BOOLEAN /\ impatient' \in BOOLEAN
    BY <1>3 DEF Send, SendFails
  <2> QED BY <1>3, <2>2, <2>4, <2>5, <2>6
<1>4. CASE ResponseTimeout
  <2>1. ClientOK
    BY <1>4, ClientMoves DEF ResponseTimeout
  <2> QED BY <1>4, <2>1 DEF ResponseTimeout
<1>5. CASE Respond
  <2>0. PICK n \in 1 .. Len(toClient) :
          LET lines == buffer \o SubSeq(toClient, 1, n)
          IN  /\ toClient' = SubSeq(toClient, n + 1, Len(toClient))
              /\ IF LastLines(lines) = {}
                 THEN buffer' = <<>> /\ UNCHANGED <<pc, cmd, result, passed>>
                 ELSE LET k == EndOfReply(lines)
                      IN  /\ buffer' = SubSeq(lines, k + 1, Len(lines))
                          /\ Judge(lines[k])
    BY <1>5 DEF Respond
  <2> DEFINE lines == buffer \o SubSeq(toClient, 1, n)
             k == EndOfReply(lines)
  <2>1. lines \in Seq(Lines) /\ toClient' \in Seq(Lines)
    BY <2>0, ReadLines
  <2>2. cmd \in Awaited
    BY <1>5 DEF Respond, Waiting, Shifted, Awaited, Commands
  <2>3. CASE LastLines(lines) = {}
    <3>1. buffer' = <<>> /\ UNCHANGED <<pc, cmd, result, passed>>
      BY <2>0, <2>3
    <3> QED BY <1>5, <2>1, <3>1 DEF Respond
  <2>4. CASE LastLines(lines) # {}
    <3>1. buffer' = SubSeq(lines, k + 1, Len(lines)) /\ Judge(lines[k])
      BY <2>0, <2>4
    <3> HIDE DEF lines
    <3>2. k \in 1 .. Len(lines) /\ Len(lines) \in Nat
      BY <2>1, <2>4, EndOfReplyIsFirst, LenProperties DEF HasLast
    <3>3. lines[k] \in Lines
      BY <2>1, <3>2, ElementOfSeq
    <3>4. \A i \in k + 1 .. Len(lines) : lines[i] \in Lines
      BY <2>1, <3>2, ElementOfSeq
    <3>5. buffer' \in Seq(Lines)
      BY <3>1, <3>2, <3>4, SubSeqProperties
    <3>6. passed' \subseteq Awaited \X (Commands \cup {"greeting"})
      BY <2>2, <3>1, <3>3 DEF Judge, Lines
    <3>7. ClientOK
      BY <1>5, <2>2, <3>1, ClientMoves DEF Judge, Respond, Awaited, Commands
    <3> QED BY <1>5, <2>1, <3>5, <3>6, <3>7 DEF Respond
  <2> QED BY <2>3, <2>4
<1>6. CASE Greet
  <2>1. toClient' \in Seq(Lines)
    <3>1. PICK code \in Codes : Reply("greeting", code)
      BY <1>6 DEF Greet, Refuse, Codes
    <3>2. PICK r \in Seq(Lines) : toClient' = toClient \o r
      BY <3>1, ReplyLines
    <3> QED BY <3>2, ConcatProperties
  <2>2. server' = "ready" /\ taken' \in BOOLEAN /\ trouble' \in BOOLEAN
    BY <1>6 DEF Greet, Refuse
  <2> QED BY <1>6, <2>1, <2>2 DEF Greet
<1>7. CASE Answer
  <2> DEFINE c == Head(toServer)
  <2>1. c \in Commands /\ toServer' \in Seq(Commands)
    BY <1>7, HeadTailProperties DEF Answer
  <2>2. toClient' = toClient \/ \E code \in Codes : Reply(c, code)
    BY <1>7 DEF Answer, Accept, Refuse, Codes
  <2>3. toClient' \in Seq(Lines)
    <3>1. ASSUME NEW code \in Codes, Reply(c, code)
          PROVE  toClient' \in Seq(Lines)
      <4>1. PICK r \in Seq(Lines) : toClient' = toClient \o r
        BY <2>1, <3>1, ReplyLines
      <4> QED BY <4>1, ConcatProperties
    <3> QED BY <2>2, <3>1
  <2>4. /\ server' \in {"ready", "mail", "rcpt", "data", "gone"}
        /\ taken' \in BOOLEAN /\ trouble' \in BOOLEAN
    BY <1>7 DEF Answer, Accept, Refuse
  <2> QED BY <1>7, <2>1, <2>3, <2>4 DEF Answer
<1>8. CASE ServerGoes
  BY <1>8, EmptySeq DEF ServerGoes
<1>9. CASE Lengthen
  <2>1. toClient' \in Seq(Lines)
    BY <1>9, LineAdded DEF Lengthen
  <2> QED BY <1>9, <2>1 DEF Lengthen
<1> QED BY <1>1, <1>2, <1>3, <1>4, <1>5, <1>6, <1>7, <1>8, <1>9 DEF Next, Step
-----------------------------------------------------------------------------
(* The client's steps.                                                     *)

\* What SmtpInductive says of where the call is.
Phases ==
    /\ impatient => trouble
    /\ pc = "connect" =>
         /\ cmd = "greeting" /\ server = "listening" /\ ~ impatient
         /\ buffer = <<>> /\ toClient = <<>> /\ toServer = <<>>
    /\ pc = "send" /\ ~ impatient => Sending
    /\ pc = "wait" /\ ~ impatient => Waiting
    /\ pc \in {"send", "wait"} /\ impatient => Shifted
    /\ pc = "end" => (result \in {"sent", "thrown"} => taken) /\ (~ trouble => result = "sent")

\* Before the greeting.
LEMMA ConnectStep ==
    ASSUME SmtpInductive, Connect \/ ConnectFails
    PROVE  InStep' /\ Phases'
<1> USE DEF SmtpInductive, SmtpTypeOK, Phases, client, network, InStep
<1>1. CASE Connect
  BY <1>1 DEF Connect, Waiting, Awaited, Commands
<1>2. CASE ConnectFails
  BY <1>2 DEF ConnectFails, Return
<1> QED BY <1>1, <1>2

\* A command, or the text, is written.
LEMMA SendStep ==
    ASSUME SmtpInductive, Send
    PROVE  InStep' /\ Phases'
<1> USE DEF SmtpInductive, SmtpTypeOK, Phases, InStep
<1>1. PICK n \in 0 .. Len(toClient) : Read(n)
  BY DEF Send, Write
<1>2. UNCHANGED <<auth, server, taken, trouble, impatient, passed>> /\ pc = "send"
  BY DEF Send
<1>3. CASE ~ impatient
  <2>1. Sending /\ cmd \in Commands
    BY <1>2, <1>3 DEF Sending
  <2>2. buffer' = <<>> /\ toClient' = <<>>
    <3>1. n = 0 /\ Len(toClient) = 0
      BY <2>1 DEF Sending
    <3>2. SubSeq(toClient, 1, 0) = <<>> /\ SubSeq(toClient, 1, 0) = <<>>
      BY SubSeqEmpty
    <3> QED BY <1>1, <2>1, <3>1, <3>2, ConcatEmptySeq DEF Read, Sending
  <2>3. toServer' = IF server = "gone" THEN toServer ELSE Append(toServer, cmd)
    BY DEF Send, Write
  <2>4. \/ toServer' = <<>> /\ server = "gone"
        \/ toServer' = <<cmd>> /\ server # "gone"
        \/ toServer' = <<"text", ".">> /\ cmd = "." /\ server = "data"
    <3>1. Append(<<>>, cmd) = <<cmd>> /\ Append(<<"text">>, ".") = <<"text", ".">>
      <4>1. <<>> \in Seq(Commands) /\ <<cmd>> \in Seq(Commands)
        BY <2>1, EmptySeq
      <4>2. Append(<<>>, cmd) = <<cmd>>
        BY <2>1, <4>1, AppendIsConcat, ConcatEmptySeq
      <4>3. Append(<<"text">>, ".") = <<"text", ".">>
        <5> DEFINE s == Append(<<"text">>, ".")
                   t == <<"text", ".">>
        <5>1. "text" \in Commands /\ "." \in Commands
          BY DEF Commands
        <5>2. <<"text">> \in Seq(Commands) /\ Len(<<"text">>) = 1 /\ t \in Seq(Commands)
                /\ Len(t) = 2 /\ t[1] = "text" /\ t[2] = "."
          BY <5>1
        <5>3. s \in Seq(Commands) /\ Len(s) = 2 /\ s[1] = "text" /\ s[2] = "."
          BY <5>1, <5>2, AppendProperties
        <5> HIDE DEF s, t
        <5>4. \A i \in 1 .. Len(s) : s[i] = t[i]
          BY <5>2, <5>3
        <5>5. s = t
          BY <5>2, <5>3, <5>4, SeqEqual
        <5> QED BY <5>5 DEF s, t
      <4> QED BY <4>2, <4>3
    <3>2. CASE toServer = <<>>
      BY <2>3, <3>1, <3>2
    <3>3. CASE cmd = "." /\ toServer = <<"text">> /\ server = "data"
      BY <2>3, <3>1, <3>3
    <3> QED BY <2>1, <3>2, <3>3 DEF Sending
  <2>5. CASE cmd = "text"
    <3>1. pc' = "send" /\ cmd' = "." /\ UNCHANGED result
      BY <2>5 DEF Send, Proceed, After
    <3>2. toServer' = <<>> \/ (toServer' = <<"text">> /\ server = "data")
      BY <2>1, <2>4, <2>5 DEF Sending
    <3> QED BY <1>2, <1>3, <2>1, <2>2, <2>5, <3>1, <3>2 DEF Sending
  <2>6. CASE cmd = "QUIT"
    BY <1>2, <2>1, <2>6 DEF Send, Return, Sending
  <2>7. CASE cmd \notin {"text", "QUIT"}
    <3>1. pc' = "wait" /\ UNCHANGED <<cmd, result>>
      BY <2>7 DEF Send
    <3>2. Waiting'
      <4>1. cmd \in Awaited /\ cmd # "greeting" /\ server \notin {"listening", "greeting"}
        BY <2>1, <2>7 DEF Sending, Awaited
      <4>2. /\ \/ toServer' = <<>>
               \/ toServer' = <<cmd>>
               \/ toServer' = <<"text", ".">> /\ cmd = "."
            /\ cmd = "." /\ toServer' # <<>> => server = "data"
            /\ toServer' = <<>> => server = "gone"
        BY <2>1, <2>4 DEF Sending
      <4>3. DOMAIN toClient' = {}
        BY <2>2
      <4> QED BY <1>2, <2>2, <3>1, <4>1, <4>2, <4>3 DEF Waiting
    <3> QED BY <1>2, <1>3, <3>1, <3>2
  <2> QED BY <2>5, <2>6, <2>7
<1>4. CASE impatient
  <2>1. Shifted /\ pc' = "wait" /\ UNCHANGED <<cmd, result>>
    BY <1>2, <1>4 DEF Send, Shifted
  <2>2. buffer' \o toClient' = buffer \o toClient
    BY <1>1, ReadLines DEF Read
  <2>3. toServer # <<>> => toServer' # <<>> /\ Head(toServer') = Head(toServer)
    BY <2>1, HeadTailAppend, AppendProperties DEF Send, Write, Shifted, Commands
  <2>4. Shifted'
    <3> DEFINE L == buffer \o toClient
    <3>1. L' = L /\ cmd' = cmd /\ server' = server
      BY <1>2, <2>1, <2>2
    <3>2. /\ BeginWithAuth(L)' = BeginWithAuth(L)
          /\ HasLast(L)' = HasLast(L)
      BY <3>1 DEF BeginWithAuth, HasLast, LastLines
    <3> QED BY <2>1, <2>3, <3>1, <3>2 DEF Shifted
  <2> QED BY <1>2, <1>4, <2>1, <2>4
<1> QED BY <1>3, <1>4

\* A write fails.
LEMMA SendFailsStep ==
    ASSUME SmtpInductive, SendFails
    PROVE  InStep' /\ Phases'
<1> USE DEF SmtpInductive, SmtpTypeOK, Phases, InStep
<1>1. /\ UNCHANGED <<auth, server, taken, passed>>
      /\ pc = "send" /\ GiveUp /\ trouble' /\ impatient' = (impatient \/ cmd = "AUTH")
  BY DEF SendFails
<1>2. CASE ~ impatient /\ cmd = "AUTH"
  <2>1. Sending /\ toServer = <<>>
    BY <1>1, <1>2 DEF Sending
  <2>2. pc' = "send" /\ cmd' = "MAIL" /\ UNCHANGED result
    BY <1>1, <1>2 DEF GiveUp, Proceed, After
  <2>3. buffer' = <<>> /\ toClient' = <<>>
    <3>1. PICK n \in 0 .. Len(toClient) : Read(n)
      BY DEF SendFails, Write
    <3>2. n = 0 /\ Len(toClient) = 0
      BY <2>1 DEF Sending
    <3>3. SubSeq(toClient, 1, 0) = <<>>
      BY SubSeqEmpty
    <3> QED BY <2>1, <3>1, <3>2, <3>3, ConcatEmptySeq DEF Read, Sending
  <2>4. server = "gone" \/ (toServer' # <<>> /\ Head(toServer') = "AUTH")
    <3>1. toServer' = IF server = "gone" THEN toServer ELSE Append(toServer, cmd)
      BY DEF SendFails, Write
    <3>2. "AUTH" \in Commands /\ <<>> \in Seq(Commands)
      BY EmptySeq DEF Commands
    <3>3. Append(<<>>, "AUTH") # <<>> /\ Head(Append(<<>>, "AUTH")) = "AUTH"
      BY <3>2, HeadTailAppend, AppendProperties
    <3> QED BY <1>2, <2>1, <3>1, <3>3
  <2>5. (buffer \o toClient)' = <<>> /\ DOMAIN (buffer \o toClient)' = {}
    BY <2>3
  <2>6. BeginWithAuth(buffer \o toClient)'
    BY <2>5 DEF BeginWithAuth
  <2>7. Shifted'
    BY <1>1, <2>1, <2>2, <2>4, <2>5, <2>6 DEF Shifted, Sending
  <2> QED BY <1>1, <1>2, <2>2, <2>7
<1>3. CASE ~ impatient /\ cmd # "AUTH"
  <2>1. Sending
    BY <1>1, <1>3
  <2> QED BY <1>1, <1>3, <2>1 DEF GiveUp, Return, Sending
<1>4. CASE impatient
  BY <1>1, <1>4 DEF GiveUp, Return, Shifted
<1> QED BY <1>2, <1>3, <1>4

\* A reply does not come, or not to its end.
LEMMA TimeoutStep ==
    ASSUME SmtpInductive, ResponseTimeout
    PROVE  InStep' /\ Phases'
<1> USE DEF SmtpInductive, SmtpTypeOK, Phases, InStep
<1>1. /\ UNCHANGED <<auth, buffer, network, server, taken, passed>>
      /\ pc = "wait" /\ GiveUp /\ trouble' /\ impatient' = (impatient \/ cmd = "AUTH")
  BY DEF ResponseTimeout
<1>2. CASE ~ impatient /\ cmd = "AUTH"
  <2>1. Waiting
    BY <1>1, <1>2
  <2>2. pc' = "send" /\ cmd' = "MAIL" /\ UNCHANGED result
    BY <1>1, <1>2 DEF GiveUp, Proceed, After
  <2>3. buffer \o toClient = toClient /\ DOMAIN toClient = 1 .. Len(toClient)
    BY <2>1, ConcatEmptySeq, LenProperties DEF Waiting
  <2>4. /\ BeginWithAuth(toClient)
        /\ \A i \in DOMAIN toClient : toClient[i].code \in {235, 500}
    BY <1>2, <2>1 DEF Waiting, Awaits, BeginWithAuth
  <2>5. \/ server = "gone" \/ HasLast(toClient)
        \/ toServer # <<>> /\ Head(toServer) = "AUTH"
    <3>1. CASE toClient # <<>>
      <4>1. Len(toClient) \in DOMAIN toClient /\ toClient[Len(toClient)].last
        BY <2>1, <2>3, <3>1, EmptySeq DEF Waiting
      <4> QED BY <4>1 DEF HasLast, LastLines
    <3>2. CASE toClient = <<>> /\ toServer = <<>>
      BY <1>2, <2>1, <3>2 DEF Waiting
    <3>3. CASE toServer # <<>>
      BY <1>2, <2>1, <3>3 DEF Waiting
    <3> QED BY <3>1, <3>2, <3>3
  <2>6. Shifted'
    BY <1>1, <1>2, <2>1, <2>2, <2>3, <2>4, <2>5
       DEF Waiting, Shifted, BeginWithAuth, HasLast, LastLines, network
  <2> QED BY <1>1, <1>2, <2>2, <2>6
<1>3. CASE ~ impatient /\ cmd # "AUTH"
  BY <1>1, <1>3 DEF GiveUp, Return, Waiting, Awaited
<1>4. CASE impatient
  BY <1>1, <1>4 DEF GiveUp, Return, Shifted
<1> QED BY <1>2, <1>3, <1>4

\* Lines arrive, and are read: some of those on their way, and the rest later.
LEMMA Arrival ==
    ASSUME buffer \in Seq(Lines), toClient \in Seq(Lines), Respond
    PROVE  \E n \in 1 .. Len(toClient), lines \in Seq(Lines), rest \in Seq(Lines) :
              /\ toClient' = rest /\ lines \o rest = buffer \o toClient
              /\ Len(rest) = Len(toClient) - n /\ Len(lines) = Len(buffer) + n
              /\ \A i \in 1 .. n : lines[Len(buffer) + i] = toClient[i]
              /\ \A i \in 1 .. Len(rest) : rest[i] = toClient[n + i]
              /\ IF LastLines(lines) = {}
                 THEN buffer' = <<>> /\ UNCHANGED <<pc, cmd, result, passed>>
                 ELSE LET k == EndOfReply(lines)
                      IN  /\ buffer' = SubSeq(lines, k + 1, Len(lines))
                          /\ Judge(lines[k])
<1>0. PICK n \in 1 .. Len(toClient) :
        LET lines == buffer \o SubSeq(toClient, 1, n)
        IN  /\ toClient' = SubSeq(toClient, n + 1, Len(toClient))
            /\ IF LastLines(lines) = {}
               THEN buffer' = <<>> /\ UNCHANGED <<pc, cmd, result, passed>>
               ELSE LET k == EndOfReply(lines)
                    IN  /\ buffer' = SubSeq(lines, k + 1, Len(lines))
                        /\ Judge(lines[k])
  BY DEF Respond
<1> DEFINE read == SubSeq(toClient, 1, n)
           rest == SubSeq(toClient, n + 1, Len(toClient))
           lines == buffer \o read
<1>1. /\ n \in 0 .. Len(toClient) /\ Len(toClient) \in Nat /\ Len(buffer) \in Nat
      /\ n \in Nat /\ n > 0 /\ n <= Len(toClient)
  BY LenProperties
<1>2. /\ lines \in Seq(Lines) /\ Len(read) = n /\ read \in Seq(Lines)
      /\ rest \in Seq(Lines) /\ Len(rest) = Len(toClient) - n
      /\ lines \o rest = buffer \o toClient
  BY <1>1, ReadLines
<1>3. \A i \in 1 .. Len(toClient) : toClient[i] \in Lines
  BY ElementOfSeq
<1>4. \A i \in 1 .. n : read[i] = toClient[i]
  <2>1. \A i \in 1 .. n : read[i] = toClient[1 + i - 1]
    BY <1>1, <1>3, SubSeqProperties
  <2> QED BY <2>1, <1>1
<1>5. \A i \in 1 .. Len(rest) : rest[i] = toClient[n + i]
  <2>1. \A i \in 1 .. Len(toClient) - (n + 1) + 1 : rest[i] = toClient[n + 1 + i - 1]
    BY <1>1, <1>3, SubSeqProperties
  <2> QED BY <1>1, <1>2, <2>1
<1>6. Len(lines) = Len(buffer) + n /\ \A i \in 1 .. n : lines[Len(buffer) + i] = read[i]
  <2> HIDE DEF read
  <2>1. /\ Len(lines) = Len(buffer) + Len(read)
        /\ \A i \in 1 .. Len(lines) :
             lines[i] = IF i <= Len(buffer) THEN buffer[i] ELSE read[i - Len(buffer)]
    BY <1>2, ConcatProperties
  <2>2. \A i \in 1 .. n :
          /\ Len(buffer) + i \in 1 .. Len(lines)
          /\ ~ (Len(buffer) + i <= Len(buffer)) /\ Len(buffer) + i - Len(buffer) = i
    BY <1>1, <1>2, <2>1
  <2> QED BY <1>2, <2>1, <2>2
<1>7. toClient' = rest
  BY <1>0
<1>8. IF LastLines(lines) = {}
      THEN buffer' = <<>> /\ UNCHANGED <<pc, cmd, result, passed>>
      ELSE LET k == EndOfReply(lines)
           IN  /\ buffer' = SubSeq(lines, k + 1, Len(lines))
               /\ Judge(lines[k])
  BY <1>0
<1>9. \A i \in 1 .. n : lines[Len(buffer) + i] = toClient[i]
  BY <1>4, <1>6
<1> HIDE DEF rest, lines
<1> QED BY <1>2, <1>5, <1>6, <1>7, <1>8, <1>9

\* The elements of two sequences in a row.
LEMMA InARow ==
    ASSUME NEW a \in Seq(Lines), NEW b \in Seq(Lines)
    PROVE  /\ DOMAIN a = 1 .. Len(a) /\ Len(a) \in Nat
           /\ DOMAIN b = 1 .. Len(b) /\ Len(b) \in Nat
           /\ a \o b \in Seq(Lines) /\ Len(a \o b) = Len(a) + Len(b)
           /\ DOMAIN (a \o b) = 1 .. Len(a) + Len(b)
           /\ \A i \in 1 .. Len(a) : (a \o b)[i] = a[i]
           /\ \A i \in 1 .. Len(b) : (a \o b)[Len(a) + i] = b[i]
<1> DEFINE s == a \o b
<1>1. DOMAIN a = 1 .. Len(a) /\ Len(a) \in Nat /\ DOMAIN b = 1 .. Len(b) /\ Len(b) \in Nat
  BY LenProperties
<1>2. /\ s \in Seq(Lines) /\ Len(s) = Len(a) + Len(b)
      /\ \A i \in 1 .. Len(s) : s[i] = IF i <= Len(a) THEN a[i] ELSE b[i - Len(a)]
  BY ConcatProperties
<1> HIDE DEF s
<1>3. DOMAIN s = 1 .. Len(s)
  BY <1>2, LenProperties
<1>4. \A i \in 1 .. Len(a) : s[i] = a[i]
  BY <1>1, <1>2
<1>5. \A i \in 1 .. Len(b) : s[Len(a) + i] = b[i]
  <2> SUFFICES ASSUME NEW i \in 1 .. Len(b) PROVE s[Len(a) + i] = b[i]
    OBVIOUS
  <2>1. /\ Len(a) + i \in 1 .. Len(s) /\ ~ (Len(a) + i <= Len(a))
        /\ Len(a) + i - Len(a) = i
    BY <1>1, <1>2
  <2> QED BY <1>2, <2>1
<1> QED BY <1>1, <1>2, <1>3, <1>4, <1>5 DEF s

\* What is dropped is no end of the reply to AUTH: the rest goes on with that reply.
LEMMA RestOfReply ==
    ASSUME NEW a \in Seq(Lines), NEW b \in Seq(Lines), ~ HasLast(a)
    PROVE  /\ BeginWithAuth(a \o b) => BeginWithAuth(b)
           /\ HasLast(a \o b) => HasLast(b)
           /\ \A i \in DOMAIN b : \E j \in DOMAIN (a \o b) : b[i] = (a \o b)[j]
<1> DEFINE s == a \o b
<1>1. /\ DOMAIN a = 1 .. Len(a) /\ Len(a) \in Nat
      /\ DOMAIN b = 1 .. Len(b) /\ Len(b) \in Nat
      /\ DOMAIN s = 1 .. Len(a) + Len(b)
      /\ \A i \in 1 .. Len(a) : s[i] = a[i]
      /\ \A i \in 1 .. Len(b) : s[Len(a) + i] = b[i]
  BY InARow
<1> HIDE DEF s
<1>2. \A i \in 1 .. Len(a) : ~ s[i].last
  BY <1>1 DEF HasLast, LastLines
<1>3. \A j \in DOMAIN s : s[j].last => \E i \in 1 .. Len(b) : j = Len(a) + i /\ s[j] = b[i]
  <2> SUFFICES ASSUME NEW j \in DOMAIN s, s[j].last
               PROVE  \E i \in 1 .. Len(b) : j = Len(a) + i /\ s[j] = b[i]
    OBVIOUS
  <2>1. j - Len(a) \in 1 .. Len(b) /\ j = Len(a) + (j - Len(a))
    BY <1>1, <1>2
  <2> QED BY <1>1, <2>1
<1>4. BeginWithAuth(s) => BeginWithAuth(b)
  <2> SUFFICES ASSUME BeginWithAuth(s), NEW i \in 1 .. Len(b), b[i].to # "AUTH"
               PROVE  \E j \in 1 .. i - 1 : b[j].last
    BY <1>1 DEF BeginWithAuth
  <2>1. PICK j \in 1 .. Len(a) + i - 1 : s[j].last
    <3>1. Len(a) + i \in DOMAIN s /\ s[Len(a) + i] = b[i]
      BY <1>1
    <3> QED BY <3>1 DEF BeginWithAuth
  <2>2. PICK m \in 1 .. Len(b) : j = Len(a) + m /\ s[j] = b[m]
    <3>1. j \in DOMAIN s
      BY <1>1
    <3> QED BY <1>3, <2>1, <3>1
  <2>3. m \in 1 .. i - 1
    <3>1. Len(a) \in Nat /\ j \in Int /\ m \in Int /\ i \in Int /\ j <= Len(a) + i - 1 /\ m >= 1
      BY <1>1
    <3> QED BY <2>2, <3>1
  <2> QED BY <2>1, <2>2, <2>3
<1>5. HasLast(s) => HasLast(b)
  BY <1>1, <1>3 DEF HasLast, LastLines
<1>6. \A i \in DOMAIN b : \E j \in DOMAIN s : b[i] = s[j]
  <2> SUFFICES ASSUME NEW i \in 1 .. Len(b) PROVE \E j \in DOMAIN s : b[i] = s[j]
    BY <1>1
  <2>1. Len(a) + i \in DOMAIN s
    BY <1>1
  <2> QED BY <1>1, <2>1
<1> QED BY <1>4, <1>5, <1>6 DEF s

\* Lines arrive that do not end a reply.
LEMMA GatherStep ==
    ASSUME SmtpInductive, Respond, ~ impatient,
           NEW n \in 1 .. Len(toClient), NEW lines \in Seq(Lines), NEW rest \in Seq(Lines),
           toClient' = rest, Len(rest) = Len(toClient) - n,
           \A i \in 1 .. n : lines[Len(buffer) + i] = toClient[i],
           \A i \in 1 .. Len(rest) : rest[i] = toClient[n + i],
           Len(lines) = Len(buffer) + n, LastLines(lines) = {},
           buffer' = <<>>, UNCHANGED <<pc, cmd, result, passed>>
    PROVE  InStep' /\ Phases'
<1> USE DEF SmtpInductive, SmtpTypeOK, Phases, InStep
<1>1. UNCHANGED <<auth, toServer, server, taken, trouble, impatient>> /\ pc = "wait"
  BY DEF Respond
<1>2. Waiting /\ Len(buffer) = 0
  BY <1>1 DEF Waiting
<1>3. /\ DOMAIN toClient = 1 .. Len(toClient) /\ Len(toClient) \in Nat
      /\ DOMAIN rest = 1 .. Len(rest) /\ Len(rest) \in Nat
      /\ DOMAIN lines = 1 .. Len(lines)
  BY LenProperties
<1>4. \A i \in 1 .. n : ~ toClient[i].last
  <2>1. \A i \in 1 .. n : i \in 1 .. Len(lines) /\ Len(buffer) + i = i
    BY <1>2, <1>3
  <2> QED BY <1>3, <2>1 DEF LastLines
<1>5. n < Len(toClient) /\ toServer = <<>>
  <2>1. toClient # <<>>
    BY <1>3, EmptySeq
  <2>2. n # Len(toClient)
    BY <1>2, <1>3, <1>4 DEF Waiting
  <2> QED BY <1>2, <1>3, <2>1, <2>2 DEF Waiting
<1>6. rest # <<>>
  BY <1>3, <1>5, EmptySeq
<1>7. \A line \in Lines : Awaits(line) => Awaits(line)'
  BY <1>1 DEF Awaits
<1>8. \A i \in 1 .. Len(rest) : Awaits(rest[i])' /\ (rest[i].last <=> i = Len(rest))
  <2> SUFFICES ASSUME NEW i \in 1 .. Len(rest)
               PROVE  Awaits(rest[i])' /\ (rest[i].last <=> i = Len(rest))
    OBVIOUS
  <2>1. n + i \in 1 .. Len(toClient) /\ rest[i] = toClient[n + i]
    BY <1>3
  <2>2. /\ Awaits(toClient[n + i])
        /\ toClient[n + i].last <=> n + i = Len(toClient)
    BY <1>2, <1>3, <2>1 DEF Waiting
  <2>3. rest[i].last <=> i = Len(rest)
    BY <1>3, <2>1, <2>2
  <2>4. rest[i] \in Lines
    BY ElementOfSeq
  <2>5. Awaits(rest[i])
    BY <2>1, <2>2
  <2> QED BY <1>7, <2>3, <2>4, <2>5
<1>9. \A i \in DOMAIN toClient' :
        Awaits(toClient[i])' /\ (toClient'[i].last <=> i = Len(toClient'))
  BY <1>3, <1>8
<1>10. Waiting'
  BY <1>1, <1>2, <1>5, <1>6, <1>9 DEF Waiting
<1> QED BY <1>1, <1>10

\* The same where the reply to AUTH was not waited for.
LEMMA GatherShifted ==
    ASSUME SmtpInductive, Respond, impatient,
           NEW lines \in Seq(Lines), NEW rest \in Seq(Lines),
           toClient' = rest, lines \o rest = buffer \o toClient, LastLines(lines) = {},
           buffer' = <<>>, UNCHANGED <<pc, cmd, result, passed>>
    PROVE  InStep' /\ Phases'
<1> USE DEF SmtpInductive, SmtpTypeOK, Phases, InStep
<1>1. UNCHANGED <<auth, toServer, server, taken, trouble, impatient>> /\ pc = "wait"
  BY DEF Respond
<1>2. Shifted
  BY <1>1
<1>3. buffer' \o toClient' = rest
  BY ConcatEmptySeq
<1>4. /\ BeginWithAuth(lines \o rest) => BeginWithAuth(rest)
      /\ HasLast(lines \o rest) => HasLast(rest)
      /\ \A i \in DOMAIN rest : \E j \in DOMAIN (lines \o rest) : rest[i] = (lines \o rest)[j]
  BY RestOfReply DEF HasLast
<1>5. Shifted'
  <2>1. BeginWithAuth(rest)
    BY <1>2, <1>4 DEF Shifted
  <2>2. \A i \in DOMAIN rest : rest[i].to = "AUTH" => rest[i].code \in {235, 500}
    <3>1. \A j \in DOMAIN (lines \o rest) :
            (lines \o rest)[j].to = "AUTH" => (lines \o rest)[j].code \in {235, 500}
      BY <1>2 DEF Shifted
    <3> SUFFICES ASSUME NEW i \in DOMAIN rest, rest[i].to = "AUTH"
                 PROVE  rest[i].code \in {235, 500}
      OBVIOUS
    <3>2. PICK j \in DOMAIN (lines \o rest) : rest[i] = (lines \o rest)[j]
      BY <1>4
    <3> QED BY <3>1, <3>2
  <2>3. HasLast(buffer \o toClient) => HasLast(rest)
    BY <1>4
  <2>4. /\ BeginWithAuth(buffer \o toClient)' = BeginWithAuth(rest)
        /\ HasLast(buffer \o toClient)' = HasLast(rest)
    BY <1>3 DEF BeginWithAuth, HasLast, LastLines
  <2> QED BY <1>1, <1>2, <1>3, <2>1, <2>2, <2>3, <2>4 DEF Shifted
<1> QED BY <1>1, <1>5

\* The end of the reply to the command arrives.
LEMMA JudgeStep ==
    ASSUME SmtpInductive, Respond, ~ impatient,
           NEW n \in 1 .. Len(toClient), NEW lines \in Seq(Lines), NEW rest \in Seq(Lines),
           toClient' = rest, Len(rest) = Len(toClient) - n,
           \A i \in 1 .. n : lines[Len(buffer) + i] = toClient[i],
           Len(lines) = Len(buffer) + n, HasLast(lines), NEW k, k = EndOfReply(lines),
           buffer' = SubSeq(lines, k + 1, Len(lines)), Judge(lines[k])
    PROVE  InStep' /\ Phases'
<1> USE DEF SmtpInductive, SmtpTypeOK, Phases, InStep
<1>1. UNCHANGED <<auth, toServer, server, taken, trouble, impatient>> /\ pc = "wait"
  BY DEF Respond
<1>2. Waiting /\ Len(buffer) = 0
  BY <1>1 DEF Waiting
<1>3. DOMAIN toClient = 1 .. Len(toClient) /\ Len(toClient) \in Nat /\ Len(rest) \in Nat
  BY LenProperties
<1>4. k \in 1 .. n /\ lines[k].last /\ lines[k] = toClient[k]
  <2>1. k \in 1 .. Len(lines) /\ lines[k].last
    BY EndOfReplyIsFirst
  <2>2. k \in 1 .. n /\ Len(buffer) + k = k
    BY <1>2, <1>3, <2>1
  <2> QED BY <2>1, <2>2
<1>5. k \in 1 .. Len(toClient)
  BY <1>3, <1>4
<1>6. Awaits(lines[k]) /\ k = Len(toClient)
  BY <1>2, <1>3, <1>4, <1>5 DEF Waiting
<1>7. buffer' = <<>> /\ toClient' = <<>>
  <2>1. Len(rest) = 0 /\ Len(lines) = k
    BY <1>2, <1>3, <1>4, <1>6
  <2>2. SubSeq(lines, k + 1, k) = <<>>
    BY <1>3, <1>5, SubSeqEmpty
  <2> QED BY <2>1, <2>2, EmptySeq
<1>8. /\ toServer' = <<>> /\ server' \notin {"listening", "greeting"}
      /\ UNCHANGED <<server, taken, trouble, impatient>>
  <2>1. toClient # <<>>
    BY <1>3, <1>5, EmptySeq
  <2> QED BY <1>1, <1>2, <2>1 DEF Waiting
<1>9. cmd \in Awaited /\ lines[k].to = cmd
  BY <1>2, <1>6 DEF Waiting, Awaits
<1>10. CASE lines[k].code = Wanted(cmd)
  <2>1. pc' = "send" /\ cmd' = After(cmd) /\ passed' = passed \cup {<<cmd, lines[k].to>>}
    BY <1>10 DEF Judge, Proceed
  <2>2. InStep'
    BY <1>9, <2>1
  <2>3. /\ cmd' \notin {"greeting", "."}
        /\ cmd' = "text" => cmd = "DATA" /\ lines[k].code = 354
        /\ cmd' = "QUIT" => cmd = "." /\ lines[k].code = 250
    <3>1. /\ cmd' \notin {"greeting", "."}
          /\ cmd' = "text" => cmd = "DATA"
          /\ cmd' = "QUIT" => cmd = "."
      BY <1>9, <2>1 DEF After, Awaited, Commands
    <3>2. Wanted("DATA") = 354 /\ Wanted(".") = 250
      BY DEF Wanted
    <3> QED BY <1>10, <3>1, <3>2
  <2>4. Sending'
    BY <1>6, <1>7, <1>8, <2>3 DEF Sending, Awaits
  <2> QED BY <1>8, <2>1, <2>2, <2>4
<1>11. CASE lines[k].code # Wanted(cmd)
  <2>1. GiveUp /\ UNCHANGED passed /\ trouble
    BY <1>6, <1>11 DEF Judge, Awaits
  <2>2. CASE cmd = "AUTH"
    <3>1. pc' = "send" /\ cmd' = "MAIL"
      BY <2>1, <2>2 DEF GiveUp, Proceed, After
    <3> QED BY <1>7, <1>8, <2>1, <3>1 DEF Sending
  <2>3. CASE cmd # "AUTH"
    <3>1. pc' = "end" /\ result' = "unsent"
      BY <1>9, <2>1, <2>3 DEF GiveUp, Return, Awaited
    <3> QED BY <1>8, <2>1, <3>1
  <2> QED BY <2>2, <2>3
<1> QED BY <1>10, <1>11

\* The end of a reply that is taken for another: it is the one to AUTH, and no good.
LEMMA JudgeShifted ==
    ASSUME SmtpInductive, Respond, impatient,
           NEW lines \in Seq(Lines), NEW rest \in Seq(Lines),
           lines \o rest = buffer \o toClient,
           HasLast(lines), NEW k, k = EndOfReply(lines), Judge(lines[k])
    PROVE  InStep' /\ Phases'
<1> USE DEF SmtpInductive, SmtpTypeOK, Phases, InStep
<1>1. UNCHANGED <<auth, toServer, server, taken, trouble, impatient>> /\ pc = "wait"
  BY DEF Respond
<1>2. Shifted /\ cmd = "MAIL" /\ trouble
  BY <1>1 DEF Shifted
<1>3. k \in 1 .. Len(lines) /\ \A j \in 1 .. k - 1 : ~ lines[j].last
  BY EndOfReplyIsFirst
<1> DEFINE s == lines \o rest
<1>4. /\ DOMAIN s = 1 .. Len(lines) + Len(rest) /\ Len(lines) \in Nat /\ Len(rest) \in Nat
      /\ \A i \in 1 .. Len(lines) : s[i] = lines[i]
  BY InARow
<1>5. BeginWithAuth(s) /\ \A i \in DOMAIN s : s[i].to = "AUTH" => s[i].code \in {235, 500}
  BY <1>2 DEF Shifted
<1> HIDE DEF s
<1>6. k \in DOMAIN s /\ s[k] = lines[k] /\ \A j \in 1 .. k - 1 : ~ s[j].last
  <2>1. k \in DOMAIN s /\ \A j \in 1 .. k - 1 : j \in 1 .. Len(lines)
    BY <1>3, <1>4
  <2> QED BY <1>3, <1>4, <2>1
<1>7. lines[k].code \in {235, 500}
  BY <1>5, <1>6 DEF BeginWithAuth
<1>8. GiveUp /\ UNCHANGED passed
  <2>1. Wanted(cmd) = 250
    BY <1>2 DEF Wanted
  <2>2. lines[k].code # Wanted(cmd)
    BY <1>7, <2>1
  <2> QED BY <2>2 DEF Judge
<1>9. pc' = "end" /\ result' = "unsent"
  BY <1>2, <1>8 DEF GiveUp, Return
<1> QED BY <1>1, <1>2, <1>8, <1>9

\* Lines arrive: they end a reply or they do not.
LEMMA RespondStep ==
    ASSUME SmtpInductive, Respond
    PROVE  InStep' /\ Phases'
<1>1. buffer \in Seq(Lines) /\ toClient \in Seq(Lines)
  BY DEF SmtpInductive, SmtpTypeOK
<1>2. PICK n \in 1 .. Len(toClient), lines \in Seq(Lines), rest \in Seq(Lines) :
        /\ toClient' = rest /\ lines \o rest = buffer \o toClient
        /\ Len(rest) = Len(toClient) - n /\ Len(lines) = Len(buffer) + n
        /\ \A i \in 1 .. n : lines[Len(buffer) + i] = toClient[i]
        /\ \A i \in 1 .. Len(rest) : rest[i] = toClient[n + i]
        /\ IF LastLines(lines) = {}
           THEN buffer' = <<>> /\ UNCHANGED <<pc, cmd, result, passed>>
           ELSE LET k == EndOfReply(lines)
                IN  /\ buffer' = SubSeq(lines, k + 1, Len(lines))
                    /\ Judge(lines[k])
  BY <1>1, Arrival
<1>3. CASE LastLines(lines) = {}
  <2>1. buffer' = <<>> /\ UNCHANGED <<pc, cmd, result, passed>>
    BY <1>2, <1>3
  <2> QED BY <1>2, <1>3, <2>1, GatherStep, GatherShifted
<1>4. CASE HasLast(lines)
  <2>1. PICK k : k = EndOfReply(lines)
    OBVIOUS
  <2>2. buffer' = SubSeq(lines, k + 1, Len(lines)) /\ Judge(lines[k])
    BY <1>2, <1>4, <2>1 DEF HasLast
  <2> QED BY <1>2, <1>4, <2>1, <2>2, JudgeStep, JudgeShifted
<1> QED BY <1>3, <1>4 DEF HasLast
-----------------------------------------------------------------------------
(* The server's steps.                                                     *)

\* The greeting is sent.
LEMMA GreetStep ==
    ASSUME SmtpInductive, Greet
    PROVE  InStep' /\ Phases'
<1> USE DEF SmtpInductive, SmtpTypeOK, Phases, InStep
<1>1. /\ UNCHANGED <<auth, client, toServer, impatient, passed>>
      /\ UNCHANGED taken /\ (trouble => trouble') /\ server = "greeting"
      /\ server' = "ready"
  BY DEF Greet, Refuse
<1>2. UNCHANGED <<pc, cmd, buffer, result>>
  BY <1>1 DEF client
<1>3. PICK code \in Codes : Reply("greeting", code) /\ (code = 220 \/ trouble')
  BY DEF Greet, Refuse, Codes
<1>4. PICK r \in Seq(Lines) : toClient' = toClient \o r /\ IsReply(r, "greeting", code)
  <2>1. /\ Reply("greeting", code) /\ "greeting" \in Commands \cup {"greeting"}
        /\ toClient \in Seq(Lines)
    BY <1>3
  <2> HIDE DEF SmtpInductive, SmtpTypeOK, Phases, InStep
  <2> QED BY <2>1, ReplyLines
<1>5. pc \in {"wait", "end"} /\ ~ (pc = "wait" /\ impatient)
  BY <1>1 DEF Sending, Shifted
<1>6. CASE pc = "wait"
  <2>1. Waiting /\ ~ impatient /\ cmd = "greeting" /\ toServer = <<>> /\ toClient = <<>>
    BY <1>1, <1>5, <1>6 DEF Waiting
  <2>2. toClient' = r /\ DOMAIN r = 1 .. Len(r)
    BY <1>4, <2>1, ConcatEmptySeq, LenProperties
  <2>3. Wanted("greeting") = 220
    BY DEF Wanted
  <2>4. \A i \in DOMAIN toClient' :
          Awaits(toClient[i])' /\ (toClient'[i].last <=> i = Len(toClient'))
    <3>1. \A i \in 1 .. Len(r) :
            /\ r[i].to = "greeting" /\ r[i].code = code
            /\ r[i].last <=> i = Len(r)
      BY <1>4 DEF IsReply
    <3>2. cmd' = "greeting" /\ (~ trouble' => code = 220)
      BY <1>2, <1>3, <2>1
    <3>3. \A i \in 1 .. Len(r) : Awaits(r[i])'
      BY <2>3, <3>1, <3>2 DEF Awaits, Wanted
    <3> QED BY <2>2, <3>1, <3>3
  <2>5. Waiting'
    BY <1>1, <1>2, <1>4, <2>1, <2>2, <2>4 DEF Waiting, IsReply
  <2> QED BY <1>1, <1>2, <1>6, <2>1, <2>5
<1>7. CASE pc = "end"
  BY <1>1, <1>2, <1>7
<1> QED BY <1>5, <1>6, <1>7

\* What the server does with a command: it takes the text, or replies.
LEMMA Replies ==
    ASSUME Answer, SmtpTypeOK
    PROVE  LET c == Head(toServer) IN
             /\ (taken => taken') /\ (trouble => trouble')
             /\ server' \notin {"listening", "greeting"} /\ c \in Commands
             /\ \/ /\ c = "text" /\ server = "data"
                   /\ UNCHANGED <<toClient, server, taken, trouble>>
                \/ \E code \in Codes :
                     /\ Reply(c, code) /\ ~ (c = "text" /\ server = "data")
                     /\ c \in Awaited => trouble' \/ code = Wanted(c)
                     /\ c = "AUTH" => code \in {235, 500}
                     /\ c = "DATA" /\ code = 354 => server' = "data"
                     /\ c = "." /\ code = 250 => taken'
<1> DEFINE c == Head(toServer)
<1>1. c \in Commands
  BY HeadTailProperties DEF Answer, SmtpTypeOK
<1> DEFINE Replied(code) ==
             /\ Reply(c, code) /\ ~ (c = "text" /\ server = "data")
             /\ c \in Awaited => trouble' \/ code = Wanted(c)
             /\ c = "AUTH" => code \in {235, 500}
             /\ c = "DATA" /\ code = 354 => server' = "data"
             /\ c = "." /\ code = 250 => taken'
           Served ==
             /\ (taken => taken') /\ (trouble => trouble')
             /\ server' \notin {"listening", "greeting"}
             /\ \/ /\ c = "text" /\ server = "data"
                   /\ UNCHANGED <<toClient, server, taken, trouble>>
                \/ \E code \in Codes : Replied(code)
<1> SUFFICES Served
  BY <1>1
<1>2. server \notin {"listening", "greeting", "gone"}
  BY DEF Answer
<1>3. CASE c \in Awaited /\ Accept(c)
  <2>1. (taken => taken') /\ (trouble => trouble') /\ server' \notin {"listening", "greeting"}
    BY <1>2, <1>3 DEF Accept
  <2>2. c \notin {"text", "QUIT", "greeting"}
    BY <1>1, <1>3 DEF Awaited, Commands
  <2>3. Reply(c, Wanted(c)) /\ Wanted(c) \in Codes
    BY <1>3 DEF Accept, Wanted, Codes
  <2>4. c = "AUTH" => Wanted(c) = 235
    BY DEF Wanted
  <2>5. (c = "DATA" => server' = "data") /\ (c = "." => taken')
    BY <1>3 DEF Accept
  <2>6. Replied(Wanted(c))
    BY <2>2, <2>3, <2>4, <2>5
  <2> HIDE DEF c, Replied
  <2> QED BY <2>1, <2>3, <2>6
<1>4. CASE c = "text" /\ server = "data" /\ UNCHANGED <<toClient, server, taken, trouble>>
  BY <1>2, <1>4
<1>5. CASE c = "QUIT" /\ Reply(c, 221) /\ server' = "gone" /\ UNCHANGED <<taken, trouble>>
  <2>1. 221 \in Codes /\ Replied(221)
    BY <1>5 DEF Codes, Awaited
  <2> HIDE DEF Replied
  <2> QED BY <1>5, <2>1
<1>6. CASE c # "QUIT" /\ (c = "text" => server # "data") /\ Refuse(c) /\ UNCHANGED server
  <2>1. 500 \in Codes /\ Replied(500)
    BY <1>6 DEF Codes, Refuse
  <2>2. UNCHANGED taken /\ trouble'
    BY <1>6 DEF Refuse
  <2> HIDE DEF Replied
  <2> QED BY <1>2, <1>6, <2>1, <2>2
<1> QED BY <1>3, <1>4, <1>5, <1>6 DEF Answer

\* A reply is added to what is under way to a client that did not wait for AUTH's.
LEMMA ReplyAdded ==
    ASSUME NEW l \in Seq(Lines), NEW r \in Seq(Lines),
           NEW c \in Commands, NEW code \in Codes, IsReply(r, c, code),
           c = "AUTH" => code \in {235, 500}, HasLast(l) \/ c = "AUTH",
           BeginWithAuth(l), \A i \in DOMAIN l : l[i].to = "AUTH" => l[i].code \in {235, 500}
    PROVE  /\ BeginWithAuth(l \o r) /\ HasLast(l \o r)
           /\ \A i \in DOMAIN (l \o r) :
                (l \o r)[i].to = "AUTH" => (l \o r)[i].code \in {235, 500}
<1> DEFINE s == l \o r
<1>1. /\ DOMAIN l = 1 .. Len(l) /\ Len(l) \in Nat
      /\ DOMAIN r = 1 .. Len(r) /\ Len(r) \in Nat
      /\ DOMAIN s = 1 .. Len(l) + Len(r)
      /\ \A i \in 1 .. Len(l) : s[i] = l[i]
      /\ \A i \in 1 .. Len(r) : s[Len(l) + i] = r[i]
  BY InARow
<1> HIDE DEF s
<1>2. /\ Len(r) \in 1 .. Len(r) /\ r[Len(r)].last
      /\ \A i \in 1 .. Len(r) : r[i].to = c /\ r[i].code = code
  <2>0. r # <<>>
    BY DEF IsReply
  <2>1. Len(r) \in 1 .. Len(r)
    BY <1>1, <2>0, EmptySeq
  <2> QED BY <2>1 DEF IsReply
<1>3. HasLast(s)
  <2>1. Len(l) + Len(r) \in DOMAIN s /\ s[Len(l) + Len(r)].last
    BY <1>1, <1>2
  <2> QED BY <2>1 DEF HasLast, LastLines
<1>4. \A i \in DOMAIN s :
        i \in 1 .. Len(l) \/ \E j \in 1 .. Len(r) : i = Len(l) + j /\ s[i] = r[j]
  <2> SUFFICES ASSUME NEW i \in DOMAIN s, i \notin 1 .. Len(l)
               PROVE  \E j \in 1 .. Len(r) : i = Len(l) + j /\ s[i] = r[j]
    OBVIOUS
  <2>1. i - Len(l) \in 1 .. Len(r) /\ i = Len(l) + (i - Len(l))
    BY <1>1
  <2> QED BY <1>1, <2>1
<1>5. \A i \in DOMAIN s : s[i].to = "AUTH" => s[i].code \in {235, 500}
  BY <1>1, <1>2, <1>4
<1>6. BeginWithAuth(s)
  <2> SUFFICES ASSUME NEW i \in DOMAIN s, s[i].to # "AUTH"
               PROVE  \E j \in 1 .. i - 1 : s[j].last
    BY DEF BeginWithAuth
  <2>1. CASE i \in 1 .. Len(l)
    <3>1. PICK j \in 1 .. i - 1 : l[j].last
      BY <1>1, <2>1 DEF BeginWithAuth
    <3>2. j \in 1 .. Len(l)
      BY <1>1, <2>1
    <3> QED BY <1>1, <3>1, <3>2
  <2>2. CASE i \notin 1 .. Len(l)
    <3>1. PICK m \in 1 .. Len(r) : i = Len(l) + m /\ s[i] = r[m]
      BY <1>4, <2>2
    <3>2. PICK j \in 1 .. Len(l) : l[j].last
      <4>1. HasLast(l)
        BY <1>2, <3>1
      <4> QED BY <1>1, <4>1 DEF HasLast, LastLines
    <3>3. j \in 1 .. i - 1
      BY <1>1, <3>1
    <3> QED BY <1>1, <3>2, <3>3
  <2> QED BY <2>1, <2>2
<1> QED BY <1>3, <1>5, <1>6 DEF s

\* The server replies to the command the client waits for.
LEMMA AnswerAwaited ==
    ASSUME SmtpInductive, Answer, pc = "wait", ~ impatient,
           toServer = <<cmd>>, NEW code \in Codes, Reply(cmd, code),
           taken => taken', trouble => trouble', server' \notin {"listening", "greeting"},
           trouble' \/ code = Wanted(cmd), cmd = "AUTH" => code \in {235, 500},
           cmd = "DATA" /\ code = 354 => server' = "data", cmd = "." /\ code = 250 => taken'
    PROVE  Waiting'
<1>1. Waiting
  BY DEF SmtpInductive
<1>2. cmd \in Awaited /\ buffer = <<>> /\ toClient = <<>>
  BY <1>1, EmptySeq DEF Waiting
<1>3. UNCHANGED <<auth, pc, cmd, buffer, result>> /\ toServer' = <<>>
  <2>1. cmd \in Commands
    BY <1>1 DEF Waiting, Awaited, Commands
  <2>2. Tail(<<cmd>>) = <<>>
    BY <2>1
  <2> QED BY <2>2 DEF Answer, client
<1>4. PICK r \in Seq(Lines) : toClient' = toClient \o r /\ IsReply(r, cmd, code)
  <2>1. toClient \in Seq(Lines) /\ cmd \in Commands \cup {"greeting"}
    BY DEF SmtpInductive, SmtpTypeOK
  <2> QED BY <2>1, ReplyLines
<1>5. toClient' = r /\ r # <<>> /\ DOMAIN r = 1 .. Len(r)
  BY <1>2, <1>4, ConcatEmptySeq, LenProperties DEF IsReply
<1>6. \A i \in 1 .. Len(r) :
        /\ r[i].to = cmd /\ r[i].code = code
        /\ r[i].last <=> i = Len(r)
  BY <1>4 DEF IsReply
<1>7. Wanted(cmd)' = Wanted(cmd)
  BY <1>3 DEF Wanted
<1>8. \A i \in 1 .. Len(r) : Awaits(r[i])'
  BY <1>3, <1>6, <1>7 DEF Awaits
<1> QED BY <1>2, <1>3, <1>5, <1>6, <1>8 DEF Waiting

\* The server answers a client that did not wait for the reply to AUTH.
LEMMA AnswerShifted ==
    ASSUME SmtpInductive, Answer, pc \in {"send", "wait"}, impatient
    PROVE  Shifted'
<1>1. Shifted /\ buffer \in Seq(Lines) /\ toClient \in Seq(Lines) /\ SmtpTypeOK
  BY DEF SmtpInductive, SmtpTypeOK
<1>2. UNCHANGED <<cmd, buffer>> /\ server # "gone"
  BY DEF Answer, client
<1> DEFINE c == Head(toServer)
           l == buffer \o toClient
<1>3. /\ server' \notin {"listening", "greeting"} /\ c \in Commands
      /\ \/ c = "text" /\ UNCHANGED <<toClient, server>>
         \/ \E code \in Codes : Reply(c, code) /\ (c = "AUTH" => code \in {235, 500})
  BY <1>1, Replies
<1>4. /\ BeginWithAuth(l) /\ (HasLast(l) \/ c = "AUTH")
      /\ \A i \in DOMAIN l : l[i].to = "AUTH" => l[i].code \in {235, 500}
  BY <1>1, <1>2 DEF Shifted
<1>5. CASE c = "text" /\ UNCHANGED <<toClient, server>>
  <2>1. buffer' \o toClient' = buffer \o toClient /\ HasLast(buffer \o toClient)
    BY <1>2, <1>4, <1>5
  <2>2. /\ BeginWithAuth(buffer \o toClient)' = BeginWithAuth(buffer \o toClient)
        /\ HasLast(buffer \o toClient)' = HasLast(buffer \o toClient)
    BY <2>1 DEF BeginWithAuth, HasLast, LastLines
  <2> QED BY <1>1, <1>2, <1>3, <2>1, <2>2 DEF Shifted
<1>6. ASSUME NEW code \in Codes, Reply(c, code), c = "AUTH" => code \in {235, 500}
      PROVE  Shifted'
  <2>1. PICK r \in Seq(Lines) : toClient' = toClient \o r /\ IsReply(r, c, code)
    <3>1. c \in Commands \cup {"greeting"}
      BY <1>3
    <3> HIDE DEF c
    <3> QED BY <1>1, <1>6, <3>1, ReplyLines
  <2>2. buffer' \o toClient' = (buffer \o toClient) \o r
    <3>1. buffer' \o toClient' = buffer \o (toClient \o r)
      BY <1>2, <2>1
    <3>2. buffer \o (toClient \o r) = (buffer \o toClient) \o r
      BY <1>1, ConcatAssociative
    <3> QED BY <3>1, <3>2
  <2>3. buffer \o toClient \in Seq(Lines)
    BY <1>1, ConcatProperties
  <2>4. PICK m \in Seq(Lines) : m = buffer \o toClient
    BY <2>3
  <2>5. PICK d \in Commands : d = c
    BY <1>3
  <2>6. /\ BeginWithAuth(m) /\ (HasLast(m) \/ d = "AUTH")
        /\ \A i \in DOMAIN m : m[i].to = "AUTH" => m[i].code \in {235, 500}
    BY <1>4, <2>4, <2>5
  <2>7. IsReply(r, d, code) /\ (d = "AUTH" => code \in {235, 500})
    BY <1>6, <2>1, <2>5
  <2>8. /\ BeginWithAuth(m \o r) /\ HasLast(m \o r)
        /\ \A i \in DOMAIN (m \o r) : (m \o r)[i].to = "AUTH" => (m \o r)[i].code \in {235, 500}
    BY <2>6, <2>7, ReplyAdded
  <2>9. /\ BeginWithAuth(buffer \o toClient)' = BeginWithAuth(m \o r)
        /\ HasLast(buffer \o toClient)' = HasLast(m \o r)
        /\ (buffer \o toClient)' = m \o r
    BY <2>2, <2>4 DEF BeginWithAuth, HasLast, LastLines
  <2> QED BY <1>1, <1>2, <1>3, <2>8, <2>9 DEF Shifted
<1> QED BY <1>3, <1>5, <1>6

\* The server takes the next command, or the text.
LEMMA AnswerStep ==
    ASSUME SmtpInductive, Answer
    PROVE  InStep' /\ Phases'
<1> DEFINE c == Head(toServer)
<1>1. /\ UNCHANGED <<auth, pc, cmd, buffer, result, impatient, passed>>
      /\ toServer # <<>> /\ toServer' = Tail(toServer)
  BY DEF Answer, client
<1>2. /\ (taken => taken') /\ (trouble => trouble')
      /\ server' \notin {"listening", "greeting"}
      /\ \/ /\ c = "text" /\ server = "data"
            /\ UNCHANGED <<toClient, server, taken, trouble>>
         \/ \E code \in Codes :
              /\ Reply(c, code) /\ ~ (c = "text" /\ server = "data")
              /\ c \in Awaited => trouble' \/ code = Wanted(c)
              /\ c = "AUTH" => code \in {235, 500}
              /\ c = "DATA" /\ code = 354 => server' = "data"
              /\ c = "." /\ code = 250 => taken'
  BY Replies DEF SmtpInductive
<1> HIDE DEF c
<1>3. InStep' /\ (impatient' => trouble') /\ pc' # "connect"
  BY <1>1, <1>2 DEF SmtpInductive, InStep
<1>4. CASE pc = "send" /\ ~ impatient
  <2>1. Sending /\ cmd = "." /\ toServer = <<"text">> /\ server = "data"
    BY <1>1, <1>4 DEF SmtpInductive, Sending
  <2>2. c = "text" /\ toServer' = <<>>
    BY <1>1, <2>1 DEF c
  <2>3. UNCHANGED <<toClient, server, taken, trouble>>
    BY <1>2, <2>1, <2>2
  <2>4. Sending'
    BY <1>1, <2>1, <2>2, <2>3 DEF Sending
  <2> QED BY <1>1, <1>3, <1>4, <2>4 DEF Phases
<1>5. CASE pc = "wait" /\ ~ impatient
  <2>1. Waiting
    BY <1>5 DEF SmtpInductive
  <2>2. CASE toServer = <<cmd>>
    <3>1. c = cmd /\ cmd \in Awaited /\ cmd # "text"
      BY <2>1, <2>2 DEF c, Waiting, Awaited
    <3>2. PICK code \in Codes :
              /\ Reply(cmd, code)
              /\ trouble' \/ code = Wanted(cmd)
              /\ cmd = "AUTH" => code \in {235, 500}
              /\ cmd = "DATA" /\ code = 354 => server' = "data"
              /\ cmd = "." /\ code = 250 => taken'
      BY <1>2, <3>1
    <3>3. Waiting'
      BY <1>2, <1>5, <2>2, <3>2, AnswerAwaited
    <3> QED BY <1>1, <1>3, <1>5, <3>3 DEF Phases
  <2>3. CASE toServer = <<"text", ".">> /\ cmd = "."
    <3>1. c = "text" /\ toServer' = <<".">> /\ server = "data" /\ toServer' # <<>>
      BY <1>1, <2>1, <2>3 DEF c, Waiting
    <3>2. UNCHANGED <<toClient, server, taken, trouble>>
      BY <1>2, <3>1
    <3>3. \A line \in Lines : Awaits(line) => Awaits(line)'
      BY <1>1, <3>2 DEF Awaits
    <3>4. toClient' = <<>>
      BY <1>1, <2>1, <3>2 DEF Waiting
    <3>5. Waiting'
      BY <1>1, <2>1, <2>3, <3>1, <3>2, <3>4 DEF Waiting
    <3> QED BY <1>1, <1>3, <1>5, <3>5 DEF Phases
  <2> QED BY <1>1, <2>1, <2>2, <2>3 DEF Waiting
<1>6. CASE pc \in {"send", "wait"} /\ impatient
  BY <1>1, <1>3, <1>6, AnswerShifted DEF Phases
<1>7. CASE pc \in {"connect", "end"}
  BY <1>1, <1>2, <1>3, <1>7 DEF Phases, SmtpInductive
<1> QED BY <1>4, <1>5, <1>6, <1>7 DEF SmtpInductive, SmtpTypeOK

\* What BeginWithAuth and HasLast say of some lines holds if one is added that ends
\* no reply and belongs to the one it is put before.
LEMMA LineInserted ==
    ASSUME NEW a \in Seq(Lines), NEW b \in Seq(Lines), b # <<>>,
           NEW x \in Lines, ~ x.last, x.to = b[1].to, x.code = b[1].code
    PROVE  LET s == a \o b
               t == a \o (<<x>> \o b)
           IN  /\ BeginWithAuth(s) => BeginWithAuth(t)
               /\ HasLast(s) => HasLast(t)
               /\ (\A i \in DOMAIN s : s[i].to = "AUTH" => s[i].code \in {235, 500})
                    => \A i \in DOMAIN t : t[i].to = "AUTH" => t[i].code \in {235, 500}
<1> DEFINE s == a \o b
           y == <<x>>
           u == y \o b
           t == a \o u
           here == Len(a) + 1
<1>1. y \in Seq(Lines) /\ Len(y) = 1 /\ y[1] = x
  OBVIOUS
<1> HIDE DEF y
<1>2. /\ DOMAIN a = 1 .. Len(a) /\ Len(a) \in Nat /\ Len(b) \in Nat /\ Len(b) > 0
      /\ DOMAIN s = 1 .. Len(a) + Len(b)
      /\ \A i \in 1 .. Len(a) : s[i] = a[i]
      /\ \A i \in 1 .. Len(b) : s[Len(a) + i] = b[i]
  BY InARow, EmptySeq
<1>3. /\ u \in Seq(Lines) /\ Len(u) = Len(b) + 1 /\ u[1] = x
      /\ \A i \in 1 .. Len(b) : u[1 + i] = b[i]
  <2>1. /\ u \in Seq(Lines) /\ Len(u) = Len(y) + Len(b)
        /\ \A i \in 1 .. Len(y) : u[i] = y[i]
        /\ \A i \in 1 .. Len(b) : u[Len(y) + i] = b[i]
    BY <1>1, InARow
  <2>2. 1 \in 1 .. Len(y)
    BY <1>1
  <2> QED BY <1>1, <1>2, <2>1, <2>2
<1> HIDE DEF u, s
<1>4. /\ DOMAIN t = 1 .. Len(a) + Len(u)
      /\ \A i \in 1 .. Len(a) : t[i] = a[i]
      /\ \A i \in 1 .. Len(u) : t[Len(a) + i] = u[i]
  BY <1>3, InARow
<1> HIDE DEF t
<1>5. /\ DOMAIN t = 1 .. Len(a) + Len(b) + 1
      /\ \A i \in 1 .. Len(a) : t[i] = s[i]
      /\ t[here] = x /\ s[here] = b[1] /\ here \in DOMAIN s
  <2>1. 1 \in 1 .. Len(u) /\ 1 \in 1 .. Len(b) /\ Len(a) + Len(u) = Len(a) + Len(b) + 1
    BY <1>2, <1>3
  <2> QED BY <1>2, <1>3, <1>4, <2>1
<1>6. \A i \in DOMAIN s : i > Len(a) => t[i + 1] = s[i]
  <2> SUFFICES ASSUME NEW i \in DOMAIN s, i > Len(a) PROVE t[i + 1] = s[i]
    OBVIOUS
  <2>1. PICK j \in 1 .. Len(b) : i = Len(a) + j
    <3>1. i - Len(a) \in 1 .. Len(b) /\ i = Len(a) + (i - Len(a))
      BY <1>2
    <3> QED BY <3>1
  <2>2. 1 + j \in 1 .. Len(u) /\ i + 1 = Len(a) + (1 + j)
    BY <1>2, <1>3, <2>1
  <2> QED BY <1>2, <1>3, <1>4, <2>1, <2>2
<1>7. \A i \in DOMAIN t :
        \/ i \in 1 .. Len(a) /\ i \in DOMAIN s /\ t[i] = s[i]
        \/ i = here
        \/ i - 1 \in DOMAIN s /\ i - 1 >= here /\ t[i] = s[i - 1]
  <2> SUFFICES ASSUME NEW i \in DOMAIN t, i # here, i \notin 1 .. Len(a)
               PROVE  i - 1 \in DOMAIN s /\ i - 1 >= here /\ t[i] = s[i - 1]
    BY <1>2, <1>5
  <2>1. i - 1 \in DOMAIN s /\ i - 1 > Len(a) /\ i - 1 >= here /\ (i - 1) + 1 = i
    BY <1>2, <1>5
  <2> QED BY <1>6, <2>1
<1>8. \A j \in DOMAIN s : s[j].last =>
        \E m \in DOMAIN t : t[m].last /\ m <= j + 1 /\ (j < here => m = j)
  <2> SUFFICES ASSUME NEW j \in DOMAIN s, s[j].last
               PROVE  \E m \in DOMAIN t : t[m].last /\ m <= j + 1 /\ (j < here => m = j)
    OBVIOUS
  <2>1. CASE j <= Len(a)
    <3>1. j \in DOMAIN t /\ t[j] = s[j] /\ j <= j + 1
      BY <1>2, <1>5, <2>1
    <3> QED BY <3>1
  <2>2. CASE j > Len(a)
    <3>1. j + 1 \in DOMAIN t /\ t[j + 1] = s[j] /\ ~ (j < here) /\ j + 1 <= j + 1
      BY <1>2, <1>5, <1>6, <2>2
    <3> QED BY <3>1
  <2> QED BY <1>2, <2>1, <2>2
<1>9. BeginWithAuth(s) => BeginWithAuth(t)
  <2> SUFFICES ASSUME BeginWithAuth(s), NEW i \in DOMAIN t, t[i].to # "AUTH"
               PROVE  \E m \in 1 .. i - 1 : t[m].last
    BY DEF BeginWithAuth
  <2>1. PICK k \in DOMAIN s :
          /\ s[k].to = t[i].to
          /\ (i <= here /\ k = i) \/ (k >= here /\ i = k + 1)
    <3>1. CASE i \in 1 .. Len(a)
      <4>1. i \in DOMAIN s /\ s[i].to = t[i].to /\ i <= here
        BY <1>2, <1>5, <3>1
      <4> QED BY <4>1
    <3>2. CASE i = here
      <4>1. here \in DOMAIN s /\ s[here].to = t[here].to /\ here <= here
        BY <1>2, <1>5
      <4> QED BY <3>2, <4>1
    <3>3. CASE i - 1 \in DOMAIN s /\ i - 1 >= here /\ t[i] = s[i - 1]
      <4>1. i = (i - 1) + 1
        BY <1>5
      <4> QED BY <3>3, <4>1
    <3> QED BY <1>7, <3>1, <3>2, <3>3
  <2>2. PICK j \in 1 .. k - 1 : s[j].last
    BY <2>1 DEF BeginWithAuth
  <2>3. j \in DOMAIN s /\ j \in Nat /\ k \in Nat /\ i \in Nat
    BY <1>2, <1>5
  <2>4. PICK m \in DOMAIN t : t[m].last /\ m <= j + 1 /\ (j < here => m = j)
    BY <1>8, <2>2, <2>3
  <2>5. m \in 1 .. i - 1
    <3>1. m \in Nat /\ m >= 1 /\ here \in Nat /\ j <= k - 1
      BY <1>2, <1>5, <2>2
    <3> QED BY <2>1, <2>3, <2>4, <3>1
  <2> QED BY <2>4, <2>5
<1>10. HasLast(s) => HasLast(t)
  BY <1>8 DEF HasLast, LastLines
<1>11. ASSUME \A i \in DOMAIN s : s[i].to = "AUTH" => s[i].code \in {235, 500}
       PROVE  \A i \in DOMAIN t : t[i].to = "AUTH" => t[i].code \in {235, 500}
  <2>1. \A i \in DOMAIN t : \E j \in DOMAIN s : t[i].to = s[j].to /\ t[i].code = s[j].code
    BY <1>5, <1>7
  <2> QED BY <1>11, <2>1
<1> QED BY <1>9, <1>10, <1>11 DEF s, t, u, y

\* The server adds a line to the reply that comes next.
LEMMA LengthenStep ==
    ASSUME SmtpInductive, Lengthen
    PROVE  InStep' /\ Phases'
<1>1. /\ UNCHANGED <<auth, pc, cmd, buffer, result, toServer>>
      /\ UNCHANGED <<server, taken, trouble, impatient, passed>>
      /\ toClient # <<>>
      /\ toClient \in Seq(Lines) /\ buffer \in Seq(Lines)
  BY DEF Lengthen, client, SmtpInductive, SmtpTypeOK
<1>2. PICK x \in Lines :
        /\ toClient' = <<x>> \o toClient
        /\ ~ x.last /\ x.to = toClient[1].to /\ x.code = toClient[1].code
  BY <1>1, LineAdded DEF Lengthen
<1>3. InStep' /\ (impatient' => trouble') /\ pc' # "connect"
  BY <1>1 DEF SmtpInductive, InStep
<1>4. ~ (pc = "send" /\ ~ impatient)
  BY <1>1 DEF SmtpInductive, Sending
<1>5. CASE pc = "wait" /\ ~ impatient
  <2>1. Waiting /\ toServer = <<>>
    BY <1>1, <1>5 DEF SmtpInductive, Waiting
  <2>2. \A line : Awaits(line) => Awaits(line)'
    BY <1>1 DEF Awaits
  <2>3. PICK y : y = <<x>>
    OBVIOUS
  <2>4. y \in Seq(Lines) /\ Len(y) = 1 /\ y[1] = x
    BY <2>3
  <2>5. /\ DOMAIN toClient = 1 .. Len(toClient) /\ Len(toClient) \in Nat
        /\ Len(toClient) > 0 /\ 1 \in DOMAIN toClient
        /\ toClient' \in Seq(Lines) /\ Len(toClient') = 1 + Len(toClient)
        /\ DOMAIN toClient' = 1 .. 1 + Len(toClient)
        /\ toClient'[1] = x
        /\ \A i \in 1 .. Len(toClient) : toClient'[1 + i] = toClient[i]
    <3>1. toClient' = y \o toClient
      BY <1>2, <2>3
    <3>2. Len(toClient) \in Nat /\ Len(toClient) > 0
      BY <1>1, EmptySeq
    <3>3. PICK l \in Seq(Lines) : l = toClient
      BY <1>1
    <3>4. PICK u : u = y \o l
      OBVIOUS
    <3>5. /\ DOMAIN l = 1 .. Len(l) /\ u \in Seq(Lines) /\ Len(u) = Len(y) + Len(l)
          /\ DOMAIN u = 1 .. Len(y) + Len(l)
          /\ \A i \in 1 .. Len(y) : u[i] = y[i]
          /\ \A i \in 1 .. Len(l) : u[Len(y) + i] = l[i]
      BY <2>4, <3>4, InARow
    <3>6. 1 \in 1 .. Len(y) /\ 1 \in 1 .. Len(l) /\ Len(y) = 1 /\ y[1] = x
      BY <2>4, <3>2, <3>3
    <3>7. /\ u \in Seq(Lines) /\ Len(u) = 1 + Len(l) /\ DOMAIN u = 1 .. 1 + Len(l)
          /\ u[1] = x /\ \A i \in 1 .. Len(l) : u[1 + i] = l[i]
      BY <3>5, <3>6
    <3>8. toClient' = u
      BY <3>1, <3>3, <3>4
    <3> QED BY <3>2, <3>3, <3>5, <3>6, <3>7, <3>8
  <2>6. \A i \in DOMAIN toClient :
          Awaits(toClient[i]) /\ (toClient[i].last <=> i = Len(toClient))
    BY <2>1 DEF Waiting
  <2>7. Awaits(x)'
    <3>1. Awaits(x)
      BY <1>2, <2>5, <2>6 DEF Awaits
    <3> QED BY <2>2, <3>1
  <2>8. \A i \in DOMAIN toClient' :
          Awaits(toClient[i])' /\ (toClient'[i].last <=> i = Len(toClient'))
    <3> SUFFICES ASSUME NEW i \in DOMAIN toClient'
                 PROVE  Awaits(toClient[i])' /\ (toClient'[i].last <=> i = Len(toClient'))
      OBVIOUS
    <3>1. CASE i = 1
      <4>1. i # Len(toClient') /\ ~ toClient'[i].last /\ toClient'[i] = x
        BY <1>2, <2>5, <3>1
      <4> QED BY <2>7, <3>1, <4>1
    <3>2. CASE i # 1
      <4>1. PICK j \in 1 .. Len(toClient) : i = 1 + j
        <5>1. i - 1 \in 1 .. Len(toClient) /\ i = 1 + (i - 1)
          BY <2>5, <3>2
        <5> QED BY <5>1
      <4>2. toClient'[i] = toClient[j] /\ j \in DOMAIN toClient
        <5>1. toClient'[1 + j] = toClient[j]
          BY <2>5
        <5>2. DOMAIN toClient = 1 .. Len(toClient)
          BY <2>5
        <5>3. toClient'[i] = toClient'[1 + j]
          BY <4>1, Zenon
        <5> QED BY <4>1, <5>1, <5>2, <5>3, Zenon
      <4>3. PICK line : line = toClient[j]
        OBVIOUS
      <4>4. Awaits(line) /\ (line.last <=> j = Len(toClient))
        BY <2>6, <4>2, <4>3
      <4>5. Awaits(line)' /\ toClient'[i] = line
        BY <2>2, <4>2, <4>3, <4>4
      <4>6. j = Len(toClient) <=> i = Len(toClient')
        <5>1. Len(toClient) \in Nat /\ Len(toClient') = 1 + Len(toClient)
          BY <2>5
        <5> QED BY <4>1, <5>1
      <4> QED BY <4>4, <4>5, <4>6
    <3> QED BY <3>1, <3>2
  <2>9. toClient' # <<>>
    BY <2>5, EmptySeq
  <2>10. Waiting'
    BY <1>1, <2>1, <2>8, <2>9 DEF Waiting
  <2> QED BY <1>1, <1>3, <1>5, <2>10 DEF Phases
<1>6. CASE pc \in {"send", "wait"} /\ impatient
  <2>1. Shifted
    BY <1>6 DEF SmtpInductive
  <2>2. /\ BeginWithAuth(buffer \o (<<x>> \o toClient))
        /\ HasLast(buffer \o toClient) => HasLast(buffer \o (<<x>> \o toClient))
        /\ \A i \in DOMAIN (buffer \o (<<x>> \o toClient)) :
             (buffer \o (<<x>> \o toClient))[i].to = "AUTH"
                => (buffer \o (<<x>> \o toClient))[i].code \in {235, 500}
    <3>1. PICK a \in Seq(Lines) : a = buffer
      BY <1>1
    <3>2. PICK b \in Seq(Lines) : b = toClient
      BY <1>1
    <3>3. b # <<>> /\ ~ x.last /\ x.to = b[1].to /\ x.code = b[1].code
      BY <1>1, <1>2, <3>2
    <3>4. /\ BeginWithAuth(a \o b) => BeginWithAuth(a \o (<<x>> \o b))
          /\ HasLast(a \o b) => HasLast(a \o (<<x>> \o b))
          /\ (\A i \in DOMAIN (a \o b) : (a \o b)[i].to = "AUTH" => (a \o b)[i].code \in {235, 500})
               => \A i \in DOMAIN (a \o (<<x>> \o b)) : (a \o (<<x>> \o b))[i].to = "AUTH"
                    => (a \o (<<x>> \o b))[i].code \in {235, 500}
      BY <3>3, LineInserted
    <3>5. /\ BeginWithAuth(a \o b)
          /\ \A i \in DOMAIN (a \o b) : (a \o b)[i].to = "AUTH" => (a \o b)[i].code \in {235, 500}
      BY <2>1, <3>1, <3>2 DEF Shifted
    <3> QED BY <3>1, <3>2, <3>4, <3>5
  <2>3. PICK t : t = buffer \o (<<x>> \o toClient)
    OBVIOUS
  <2>4. /\ (buffer \o toClient)' = t
        /\ BeginWithAuth(t) /\ (HasLast(buffer \o toClient) => HasLast(t))
        /\ \A i \in DOMAIN t : t[i].to = "AUTH" => t[i].code \in {235, 500}
    BY <1>1, <1>2, <2>2, <2>3
  <2>5. BeginWithAuth(buffer \o toClient)' /\ (HasLast(t) => HasLast(buffer \o toClient)')
    BY <2>4 DEF BeginWithAuth, HasLast, LastLines
  <2>6. Shifted'
    BY <1>1, <2>1, <2>4, <2>5 DEF Shifted
  <2> QED BY <1>1, <1>3, <1>6, <2>6 DEF Phases
<1>7. CASE pc \in {"connect", "end"}
  BY <1>1, <1>3, <1>7 DEF Phases, SmtpInductive
<1> QED BY <1>4, <1>5, <1>6, <1>7 DEF SmtpInductive, SmtpTypeOK

\* The server goes: what it was sent is lost, what it sent still arrives.
LEMMA ServerGoesStep ==
    ASSUME SmtpInductive, ServerGoes
    PROVE  InStep' /\ Phases'
<1>1. /\ UNCHANGED <<auth, pc, cmd, buffer, result, toClient, taken, impatient, passed>>
      /\ server # "listening" /\ server' = "gone" /\ toServer' = <<>>
      /\ trouble' = (trouble \/ pc # "end")
  BY DEF ServerGoes, client
<1>2. InStep' /\ (impatient' => trouble') /\ pc' # "connect"
  BY <1>1 DEF SmtpInductive, InStep
<1>3. CASE pc = "send" /\ ~ impatient
  BY <1>1, <1>2, <1>3 DEF SmtpInductive, Sending, Phases
<1>4. CASE pc = "wait" /\ ~ impatient
  <2>1. Waiting /\ toClient \in Seq(Lines)
    BY <1>4 DEF SmtpInductive, SmtpTypeOK
  <2>2. \A line : Awaits(line) => Awaits(line)'
    BY <1>1, <1>4 DEF Awaits
  <2>3. \A i \in DOMAIN toClient' :
          Awaits(toClient[i])' /\ (toClient'[i].last <=> i = Len(toClient'))
    BY <1>1, <2>1, <2>2 DEF Waiting
  <2>4. Waiting'
    BY <1>1, <2>1, <2>3 DEF Waiting
  <2> QED BY <1>1, <1>2, <1>4, <2>4 DEF Phases
<1>5. CASE pc \in {"send", "wait"} /\ impatient
  BY <1>1, <1>2, <1>5 DEF SmtpInductive, Shifted, BeginWithAuth, HasLast, LastLines, Phases
<1>6. CASE pc \in {"connect", "end"}
  BY <1>1, <1>2, <1>6 DEF Phases, SmtpInductive
<1> QED BY <1>3, <1>4, <1>5, <1>6 DEF SmtpInductive, SmtpTypeOK
-----------------------------------------------------------------------------
(* The theorems.                                                           *)

\* The program starts with no call under way.
LEMMA InitSmtp == Init => SmtpInductive
<1>1. <<>> \in Seq(Lines) /\ <<>> \in Seq(Commands)
  BY EmptySeq
<1> QED BY <1>1 DEF Init, SmtpInductive, SmtpTypeOK, InStep

\* mailer.cpp:54-110, smtpclient.cpp:344-449.  Where client and server can be in
\* their dialogue, whatever is lost, late, refused or cut into lines.
THEOREM SmtpInvariant == Spec => []SmtpInductive
<1>1. SmtpInductive /\ [Next]_vars => SmtpInductive'
  <2> SUFFICES ASSUME SmtpInductive, [Next]_vars
               PROVE  SmtpInductive'
    OBVIOUS
  <2>1. CASE UNCHANGED vars
    <3>1. /\ UNCHANGED <<auth, pc, cmd, buffer, result, toServer, toClient>>
          /\ UNCHANGED <<server, taken, trouble, impatient, passed>>
      BY <2>1 DEF vars, client, network
    <3>2. Sending => Sending'
      BY <3>1 DEF Sending
    <3>3. Waiting => Waiting'
      <4>1. \A line : Awaits(line) => Awaits(line)'
        BY <3>1 DEF Awaits
      <4> QED BY <3>1, <4>1 DEF Waiting
    <3>4. Shifted => Shifted'
      BY <3>1 DEF Shifted, BeginWithAuth, HasLast, LastLines
    <3>5. SmtpTypeOK' /\ InStep'
      BY <3>1 DEF SmtpInductive, SmtpTypeOK, InStep
    <3> QED BY <3>1, <3>2, <3>3, <3>4, <3>5 DEF SmtpInductive
  <2>2. CASE Next
    <3>1. SmtpTypeOK'
      BY <2>2, SmtpTypeStep
    <3>2. InStep' /\ Phases'
      BY <2>2, ConnectStep, SendStep, SendFailsStep, RespondStep, TimeoutStep,
         GreetStep, AnswerStep, LengthenStep, ServerGoesStep DEF Next, Step
    <3> QED BY <3>1, <3>2 DEF SmtpInductive, Phases
  <2> QED BY <2>1, <2>2
<1> QED BY <1>1, InitSmtp, PTL DEF Spec

\* Every variable keeps to its type.
THEOREM SmtpTypeCorrect == Spec => []SmtpTypeOK
<1>1. SmtpInductive => SmtpTypeOK
  BY DEF SmtpInductive
<1> QED BY <1>1, SmtpInvariant, PTL

\* mailer.cpp:77-79, smtpclient.cpp:344-412.  No reply is taken for that of another
\* command, late as it may be.
THEOREM RepliesStayInStep == Spec => []InStep
<1>1. SmtpInductive => InStep
  BY DEF SmtpInductive
<1> QED BY <1>1, SmtpInvariant, PTL

\* smtpclient.cpp:424-449.  Nothing is left in the buffer of a client that waits,
\* unless it did not wait for AUTH.
THEOREM WaitsForArrivals == Spec => []WaitsForNew
<1>1. SmtpInductive => WaitsForNew
  BY DEF SmtpInductive, WaitsForNew, Waiting
<1> QED BY <1>1, SmtpInvariant, PTL

\* mailer.cpp:72-110.  Where nothing fails and nothing is refused, send returns true.
THEOREM UntroubledLettersAreSent == Spec => []UntroubledIsSent
<1>1. SmtpInductive => UntroubledIsSent
  BY DEF SmtpInductive, UntroubledIsSent
<1> QED BY <1>1, SmtpInvariant, PTL

\* A step of the dialogue is a step of Letter or leaves its variables alone.
LEMMA LetterStep ==
    ASSUME SmtpInductive, [Next]_vars
    PROVE  [Promise!Next]_<<taken, result>>
<1> USE DEF Promise!Next, Promise!Take, Promise!Succeed, Promise!Fail
<1>1. /\ pc # "end" => result = None
      /\ result \in {None, "sent", "unsent", "thrown"}
      /\ result \in {"sent", "thrown"} => taken
      /\ taken \in BOOLEAN
  BY DEF SmtpInductive, SmtpTypeOK
<1>2. pc = "send" /\ cmd = "QUIT" => taken
  BY DEF SmtpInductive, Sending, Shifted
<1>3. pc = "wait" => cmd # "QUIT"
  BY DEF SmtpInductive, Waiting, Awaited, Shifted
<1>4. CASE UNCHANGED taken /\ pc \in {"connect", "send", "wait"}
           /\ result' \in {result, "unsent"}
  BY <1>1, <1>4
<1>5. CASE UNCHANGED taken /\ pc = "send" /\ cmd = "QUIT"
           /\ result' \in {"sent", "thrown"}
  BY <1>1, <1>2, <1>5
<1>6. CASE UNCHANGED result /\ taken' \in BOOLEAN /\ (taken => taken')
  BY <1>1, <1>6
<1>7. CASE Connect \/ ConnectFails
  <2>1. UNCHANGED taken /\ pc = "connect" /\ result' \in {result, "unsent"}
    BY <1>7 DEF Connect, ConnectFails, Return
  <2> QED BY <2>1, <1>4
<1>8. CASE Send \/ SendFails
  <2>1. UNCHANGED taken /\ pc = "send"
    BY <1>8 DEF Send, SendFails
  <2>2. result' \in {result, "unsent"} \/ (cmd = "QUIT" /\ result' \in {"sent", "thrown"})
    BY <1>8 DEF Send, SendFails, GiveUp, Proceed, Return
  <2> QED BY <2>1, <2>2, <1>4, <1>5
<1>9. CASE Respond \/ ResponseTimeout
  <2>1. UNCHANGED taken /\ pc = "wait"
    BY <1>9 DEF Respond, ResponseTimeout
  <2>2. GiveUp \/ UNCHANGED result
    BY <1>9 DEF Respond, ResponseTimeout, Judge, Proceed
  <2>3. result' \in {result, "unsent"}
    BY <1>3, <2>1, <2>2 DEF GiveUp, Return, Proceed
  <2> QED BY <2>1, <2>3, <1>4
<1>10. CASE Greet \/ Lengthen \/ ServerGoes \/ UNCHANGED vars
  BY <1>10 DEF Greet, Refuse, Lengthen, ServerGoes, client, vars
<1>11. CASE Answer
  <2>1. UNCHANGED result
    BY <1>11 DEF Answer, client
  <2>2. (taken => taken') /\ SmtpTypeOK'
    BY <1>11, Replies, SmtpTypeStep DEF SmtpInductive, Next
  <2> QED BY <2>1, <2>2, <1>6 DEF SmtpTypeOK
<1> QED BY <1>7, <1>8, <1>9, <1>10, <1>11 DEF Next, Step

\* mailer.cpp:54-114, controller.cpp:74-76.  The dialogue keeps the promise of Letter:
\* what is reported as sent, or ends in an exception, was taken by the server.
THEOREM ImplementsLetter == Spec => KeepsLetter
<1>1. Init => Promise!Init
  BY DEF Init, Promise!Init
<1>2. SmtpInductive /\ [Next]_vars => [Promise!Next]_Promise!letter
  BY LetterStep DEF Promise!letter
<1> QED BY <1>1, <1>2, SmtpInvariant, PTL DEF Spec, KeepsLetter, Promise!Spec

=============================================================================
