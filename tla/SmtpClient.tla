----------------------------- MODULE SmtpClient -----------------------------
(***************************************************************************)
(* mailer::send: one dialogue of SmtpClient with a mail server, over plain *)
(* TCP and with AUTH PLAIN if smtp.auth is set, as the mailer uses it.     *)
(*                                                                         *)
(* The client writes a command and waits for its reply.  A reply is one or *)
(* more lines, which the socket reads into its buffer when they arrive,    *)
(* perhaps together; the client is woken by an arrival only, never by what *)
(* is in the buffer already.  The server answers commands in order, after  *)
(* any delay, well or not, in as many lines as it likes, or goes away.     *)
(***************************************************************************)
EXTENDS Naturals, Sequences

CONSTANTS
    MaxLines,   \* lines a reply begins with, and lines on their way when one
                \* more is added to a reply (bounds)
    None

ASSUME SmtpAssumption ==
    /\ MaxLines \in Nat \ {0}
    /\ None \notin {"sent", "unsent", "thrown"}

Commands == {"EHLO", "AUTH", "MAIL", "RCPT", "DATA", "text", ".", "QUIT"}
Awaited  == (Commands \ {"text", "QUIT"}) \cup {"greeting"}
Codes    == {220, 221, 235, 250, 354, 500}

\* A line of a reply: its code, whether a space follows it (in the last line),
\* and the command it replies to, which only properties look at.
Lines == [code : Codes, last : BOOLEAN, to : Commands \cup {"greeting"}]

VARIABLES
    auth,       \* mailer::smtpauth
    pc,         \* "connect", "send", "wait" or "end"
    cmd,        \* the command to send, or the one whose reply is waited for
    buffer,     \* lines the socket has read
    result,     \* what send returned: "sent", "unsent"; or "thrown"
    toServer,   \* commands on their way
    toClient,   \* lines on their way
    server,     \* how far the server is, or "gone"
    taken,      \* the server took the letter
    trouble,    \* history: a timeout, a failed write, a refusal, a lost server
    impatient,  \* history: AUTH was given up before its reply had ended
    passed      \* history: <<command, reply>> where a reply let the client go on

client  == <<pc, cmd, buffer, result>>
network == <<toServer, toClient>>
vars    == <<auth, client, network, server, taken, trouble, impatient, passed>>

Init ==
    /\ auth \in BOOLEAN
    /\ pc = "connect" /\ cmd = "greeting" /\ buffer = <<>> /\ result = None
    /\ toServer = <<>> /\ toClient = <<>> /\ server = "listening" /\ taken = FALSE
    /\ trouble = FALSE /\ impatient = FALSE /\ passed = {}
-----------------------------------------------------------------------------
(* The client.                                                             *)

\* Mutant of Wanted: the reply to DATA is compared with 250, like the others.
WantedOften(c) ==
    CASE c = "greeting" -> 220
      [] c \in {"EHLO", "MAIL", "RCPT", "DATA", "."} -> 250
      [] c = "AUTH" -> 235

\* The code a reply must have, and the command that follows.
Wanted(c) ==
    CASE c = "greeting" -> 220
      [] c \in {"EHLO", "MAIL", "RCPT", "."} -> 250
      [] c = "AUTH" -> 235
      [] c = "DATA" -> 354

After(c) ==
    CASE c = "greeting" -> "EHLO"
      [] c = "EHLO" -> IF auth THEN "AUTH" ELSE "MAIL"
      [] c = "AUTH" -> "MAIL"
      [] c = "MAIL" -> "RCPT"
      [] c = "RCPT" -> "DATA"
      [] c = "DATA" -> "text"
      [] c = "text" -> "."
      [] c = "."    -> "QUIT"

Return(r) == pc' = "end" /\ result' = r /\ UNCHANGED cmd

Proceed(c) == pc' = "send" /\ cmd' = After(c) /\ UNCHANGED result

\* waitForConnected
Connect ==
    /\ pc = "connect"
    /\ pc' = "wait"
    /\ server' = "greeting"
    /\ UNCHANGED <<auth, cmd, buffer, result, network, taken, trouble, impatient, passed>>

ConnectFails ==
    /\ pc = "connect"
    /\ Return("unsent")
    /\ trouble' = TRUE
    /\ UNCHANGED <<auth, buffer, network, server, taken, impatient, passed>>

\* Mutants of GiveUp: the result of login is kept for later; a reply that does
\* not come after the text is taken for a good one.
GiveUpLater ==
    CASE cmd = "AUTH" -> pc' = "send" /\ cmd' = After("AUTH") /\ result' = "unsent"
      [] cmd = "QUIT" -> Return("thrown")
      [] OTHER        -> Return("unsent")

GiveUpGladly ==
    CASE cmd = "AUTH" -> Proceed("AUTH")
      [] cmd = "QUIT" -> Return("thrown")
      [] cmd = "."    -> Return("sent")
      [] OTHER        -> Return("unsent")

\* The result of login is not looked at; anything else ends the attempt.  No
\* exception is caught around quit.
GiveUp ==
    CASE cmd = "AUTH" -> Proceed("AUTH")
      [] cmd = "QUIT" -> Return("thrown")
      [] OTHER        -> Return("unsent")

\* Some lines that were on their way are in the buffer now.
Read(n) ==
    /\ buffer' = buffer \o SubSeq(toClient, 1, n)
    /\ toClient' = SubSeq(toClient, n + 1, Len(toClient))

\* What arrives while the bytes are written is read as well.
Write ==
    /\ toServer' = IF server = "gone" THEN toServer ELSE Append(toServer, cmd)
    /\ \E n \in 0 .. Len(toClient) : Read(n)

\* sendMessage
Send ==
    /\ pc = "send"
    /\ Write
    /\ CASE cmd = "text" -> Proceed("text")
         [] cmd = "QUIT" -> Return("sent")
         [] OTHER        -> pc' = "wait" /\ UNCHANGED <<cmd, result>>
    /\ UNCHANGED <<auth, server, taken, trouble, impatient, passed>>

\* The bytes are not gone in sendMessageTimeout: the command is given up, but the
\* socket keeps them and sends them with what is written next.
SendFails ==
    /\ pc = "send"
    /\ Write
    /\ GiveUp
    /\ trouble' = TRUE
    /\ impatient' = (impatient \/ cmd = "AUTH")
    /\ UNCHANGED <<auth, server, taken, passed>>

LastLines(lines) == {i \in DOMAIN lines : lines[i].last}

\* The reply a buffer holds in full ends with its first line that is a last one.
EndOfReply(lines) ==
    CHOOSE i \in LastLines(lines) : \A j \in LastLines(lines) : i <= j

\* Mutant of Judge: any positive reply will do.
JudgeByClass(line) ==
    IF line.code \div 100 = Wanted(cmd) \div 100
    THEN Proceed(cmd) /\ passed' = passed \cup {<<cmd, line.to>>}
    ELSE GiveUp /\ UNCHANGED passed

\* What a reply that was read in full, ending with this line, leads to.
Judge(line) ==
    IF line.code = Wanted(cmd)
    THEN Proceed(cmd) /\ passed' = passed \cup {<<cmd, line.to>>}
    ELSE GiveUp /\ UNCHANGED passed

\* Mutant of Respond: a reply is taken for one line.
RespondToLine ==
    /\ pc = "wait"
    /\ \E n \in 1 .. Len(toClient) :
          LET lines == buffer \o SubSeq(toClient, 1, n)
          IN  /\ toClient' = SubSeq(toClient, n + 1, Len(toClient))
              /\ buffer' = Tail(lines)
              /\ Judge(Head(lines))
    /\ UNCHANGED <<auth, toServer, server, taken, trouble, impatient>>

\* waitForResponse: lines arrive and are read up to the end of a reply.
Respond ==
    /\ pc = "wait"
    /\ \E n \in 1 .. Len(toClient) :
          LET lines == buffer \o SubSeq(toClient, 1, n)
          IN  /\ toClient' = SubSeq(toClient, n + 1, Len(toClient))
              /\ IF LastLines(lines) = {}
                 THEN buffer' = <<>> /\ UNCHANGED <<pc, cmd, result, passed>>
                 ELSE LET k == EndOfReply(lines)
                      IN  /\ buffer' = SubSeq(lines, k + 1, Len(lines))
                          /\ Judge(lines[k])
    /\ UNCHANGED <<auth, toServer, server, taken, trouble, impatient>>

\* Mutant of ResponseTimeout: waitForResponse goes on waiting.
ResponseTimeoutIgnored ==
    /\ pc = "wait"
    /\ trouble' = TRUE
    /\ impatient' = (impatient \/ cmd = "AUTH")
    /\ UNCHANGED <<auth, client, network, server, taken, passed>>

\* Nothing has arrived for responseTimeout, or the server has closed.
ResponseTimeout ==
    /\ pc = "wait"
    /\ GiveUp
    /\ trouble' = TRUE
    /\ impatient' = (impatient \/ cmd = "AUTH")
    /\ UNCHANGED <<auth, buffer, network, server, taken, passed>>
-----------------------------------------------------------------------------
(* The mail server, as far as the protocol goes.                           *)

Reply(c, code) ==
    \E n \in 1 .. MaxLines :
        toClient' = toClient \o
            [i \in 1 .. n |-> [code |-> code, last |-> i = n, to |-> c]]

Refuse(c) == Reply(c, 500) /\ trouble' = TRUE /\ UNCHANGED taken

Greet ==
    /\ server = "greeting"
    /\ server' = "ready"
    /\ \/ Reply("greeting", 220) /\ UNCHANGED <<taken, trouble>>
       \/ Refuse("greeting")
    /\ UNCHANGED <<auth, client, toServer, impatient, passed>>

\* Where a command is in order, its reply, and where the server is then.
Accept(c) ==
    /\ \/ c = "EHLO" /\ server = "ready" /\ Reply(c, 250) /\ UNCHANGED server
       \/ c = "AUTH" /\ server = "ready" /\ Reply(c, 235) /\ UNCHANGED server
       \/ c = "MAIL" /\ server = "ready" /\ Reply(c, 250) /\ server' = "mail"
       \/ c = "RCPT" /\ server = "mail"  /\ Reply(c, 250) /\ server' = "rcpt"
       \/ c = "DATA" /\ server = "rcpt"  /\ Reply(c, 354) /\ server' = "data"
       \/ c = "."    /\ server = "data"  /\ Reply(c, 250) /\ server' = "ready"
    /\ taken' = (taken \/ c = ".")
    /\ UNCHANGED trouble

Answer ==
    /\ server \notin {"listening", "greeting", "gone"} /\ toServer # <<>>
    /\ LET c == Head(toServer) IN
          \/ c \in Awaited /\ Accept(c)
          \/ c = "text" /\ server = "data"
               /\ UNCHANGED <<toClient, server, taken, trouble>>
          \/ c = "QUIT" /\ Reply(c, 221) /\ server' = "gone" /\ UNCHANGED <<taken, trouble>>
          \/ c # "QUIT" /\ (c = "text" => server # "data") /\ Refuse(c) /\ UNCHANGED server
    /\ toServer' = Tail(toServer)
    /\ UNCHANGED <<auth, client, impatient, passed>>

\* The reply that comes next goes on for another line before it ends, or for some
\* more bytes of a line.  Nothing limits how often.
Lengthen ==
    /\ server # "gone" /\ toClient # <<>> /\ Len(toClient) < MaxLines
    /\ toClient' = <<[Head(toClient) EXCEPT !.last = FALSE]>> \o toClient
    /\ UNCHANGED <<auth, client, toServer, server, taken, trouble, impatient, passed>>

\* The server closes or dies: what it was sent is lost.
ServerGoes ==
    /\ server \notin {"listening", "gone"}
    /\ server' = "gone" /\ toServer' = <<>>
    /\ trouble' = (trouble \/ pc # "end")
    /\ UNCHANGED <<auth, client, toClient, taken, impatient, passed>>

\* What the thread of the mailer does next.
Step == Connect \/ ConnectFails \/ Send \/ SendFails \/ Respond \/ ResponseTimeout

Next == Step \/ Greet \/ Answer \/ Lengthen \/ ServerGoes

Spec == Init /\ [][Next]_vars

\* The thread runs, and its waits end; the server owes nothing.
Fairness == WF_vars(Step)

FairSpec == Spec /\ Fairness
-----------------------------------------------------------------------------
(* Properties.                                                             *)

\* The values the variables range over.
SmtpTypeOK ==
    /\ auth \in BOOLEAN /\ taken \in BOOLEAN
    /\ trouble \in BOOLEAN /\ impatient \in BOOLEAN
    /\ pc \in {"connect", "send", "wait", "end"}
    /\ cmd \in Commands \cup {"greeting"}
    /\ result \in {None, "sent", "unsent", "thrown"}
    /\ buffer \in Seq(Lines) /\ toClient \in Seq(Lines) /\ toServer \in Seq(Commands)
    /\ server \in {"listening", "greeting", "ready", "mail", "rcpt", "data", "gone"}
    /\ passed \subseteq Awaited \X (Commands \cup {"greeting"})
    /\ pc = "end" <=> result # None

\* mailer.cpp:77-79, smtpclient.cpp:344-412.  No reply is taken for that of another
\* command, although a late reply to AUTH shifts all that follow.
InStep == \A p \in passed : p[1] = p[2]

\* smtpclient.cpp:424-449.  A reply that is in the buffer when the client waits was
\* cut off by a timeout of AUTH: nothing else makes the client wait for more.
WaitsForNew == pc = "wait" /\ ~ impatient => buffer = <<>>

\* Without a refusal, a timeout, a failed write or a lost server the letter is sent,
\* however its replies are broken into lines and arrivals.
UntroubledIsSent == pc = "end" /\ ~ trouble => result = "sent"

\* The dialogue keeps the promise of Letter.
Promise == INSTANCE Letter

KeepsLetter == Promise!Spec

\* smtpclient.cpp:426-448.  Every call of send comes to an end, unless the server goes
\* on with one of its replies for ever: each arrival starts responseTimeout anew, and
\* nothing else limits the loop.
SendEnds == <>(pc = "end") \/ []<><<Lengthen>>_vars
=============================================================================
