------------------------------ MODULE Streams -------------------------------
(***************************************************************************)
(* One answer on its way from the provider to the playground's output      *)
(* panel: the adapter reads the provider's stream, the controller writes   *)
(* each chunk as a line of NDJSON, the proxy passes the bytes on and the   *)
(* panel reads them into the store, while the user cancels, clears, leaves *)
(* the page, returns to it and runs again.                                 *)
(*                                                                         *)
(* A line is two halves and a line feed; a read returns any number of      *)
(* these pieces.  Ollama answers in NDJSON too, and its adapter cuts the   *)
(* bytes itself; the other providers' client libraries hand over whole     *)
(* events.  A provider's stream may be at its end before its `done', and   *)
(* Ollama's may say in band that something failed: no adapter looks for    *)
(* either.  What a run costs, and what the server does after its client    *)
(* has gone, is in Playground.                                             *)
(***************************************************************************)
EXTENDS Naturals, Sequences, FiniteSetsExt

CONSTANTS
    Providers,   \* subset of {"ollama", "sdk"}
    MaxTokens,   \* bound: tokens of an answer
    MaxRuns,     \* bound: streams that are opened
    None

ASSUME StreamsAssumption ==
    {MaxTokens, MaxRuns} \subseteq Nat /\ None \notin {"stopped", "timed_out", "failed"}

VARIABLES
    isRunning, streamTokens, streamError, runMetrics,   \* the store
    mounted,    \* the playground page is on screen
    open,       \* the panel reads a stream
    buffer,     \* what the panel has read of a line
    down,       \* what the controller has written and the panel has not read
    served,     \* the controller has ended the response
    provider,
    up,         \* what the provider has to say and the adapter has not read
    pending,    \* what the adapter has read of a line
    tokensOut,  \* the adapter's count
    answers,    \* history: the tokens each stream opened has in whole lines
    finished,   \* history: the last stream has its `done'
    cleared     \* history: the runs whose output was wiped

store == <<isRunning, streamTokens, streamError, runMetrics>>
server == <<down, served, provider, up, pending, tokensOut>>
said == <<answers, finished>>
streamVars == <<store, mounted, open, buffer, server, said, cleared>>

Run == Len(answers)

-----------------------------------------------------------------------------
(* Lines.                                                                  *)

LF == [type |-> "lf"]
Half(k, chunk) == [type |-> "half", k |-> k, chunk |-> chunk]
Line(chunk) == <<Half(1, chunk), Half(2, chunk), LF>>

Token(n) == [type |-> "token", run |-> Run, n |-> n]
Metrics(n) == [type |-> "metrics", run |-> Run, n |-> n]
Done == [type |-> "done", run |-> Run, n |-> 0]
Error == [type |-> "error", run |-> Run, n |-> 0]

\* JSON.parse of a line; a line that is blank or malformed gives nothing.
Parsed(text) ==
    IF \E c \in {text[i].chunk : i \in DOMAIN text} : text = <<Half(1, c), Half(2, c)>>
    THEN <<text[1].chunk>> ELSE <<>>

\* split("\n") and pop: the chunks of the whole lines, and the rest.
Feed(cut, piece) ==
    IF piece = LF THEN [chunks |-> cut.chunks \o Parsed(cut.rest), rest |-> <<>>]
    ELSE [cut EXCEPT !.rest = Append(@, piece)]
Cut(text) ==
    LET cut[i \in 0..Len(text)] ==
            IF i = 0 THEN [chunks |-> <<>>, rest |-> <<>>] ELSE Feed(cut[i - 1], text[i])
    IN  cut[Len(text)]

Lines(chunks) ==
    [i \in 1..(3 * Len(chunks)) |-> Line(chunks[(i + 2) \div 3])[((i + 2) % 3) + 1]]

OfType(type, chunks) ==
    LET those[i \in 0..Len(chunks)] ==
            IF i = 0 THEN <<>>
            ELSE IF chunks[i].type = type THEN Append(those[i - 1], chunks[i]) ELSE those[i - 1]
    IN  those[Len(chunks)]

\* What one read of the bytes may return, and what it leaves.
Reads(text) == {SubSeq(text, 1, k) : k \in 1..Len(text)}
Unread(text, read) == SubSeq(text, Len(read) + 1, Len(text))

\* What a client library hands over: whole, and one at a time.
NextEvent(text) == SubSeq(text, 1, 3)

-----------------------------------------------------------------------------
(* The panel and its controls.                                             *)

StreamsInit ==
    /\ isRunning = FALSE /\ streamTokens = <<>> /\ streamError = None /\ runMetrics = None
    /\ mounted = TRUE /\ open = FALSE /\ buffer = <<>>
    /\ down = <<>> /\ served = FALSE
    /\ provider \in Providers /\ up = <<>> /\ pending = <<>> /\ tokensOut = 0
    /\ answers = <<>> /\ finished = FALSE /\ cleared = {}

\* How a provider's stream ends, after its tokens: with `done', without it, or, of Ollama,
\* with a line that says what failed or within a line, whatever that was about to say.  (A
\* client library throws when it is told of a failure: ServerFails.)
Tails ==
    {Line(Done), <<>>} \union
        IF provider = "ollama"
        THEN {Line(Error), <<Half(1, Done)>>, <<Half(1, Done), Half(2, Done)>>} ELSE {}

\* The effect of isRunning: a POST whose answer the provider chooses.
OpenStream ==
    /\ Run < MaxRuns
    /\ open' = TRUE /\ buffer' = <<>> /\ down' = <<>> /\ served' = FALSE
    /\ pending' = <<>> /\ tokensOut' = 0
    /\ provider' \in Providers
    /\ \E n \in 0..MaxTokens :
          /\ answers' = Append(answers, n)
          /\ \E tail \in Tails' :
                /\ up' = Lines([i \in 1..n |-> Token(i)']) \o tail
                /\ finished' = (tail = Line(Done)')

\* controller.abort(), or the end of a stream: nothing of it is read any more.
CloseStream ==
    /\ open' = FALSE /\ buffer' = <<>> /\ down' = <<>> /\ up' = <<>> /\ pending' = <<>>
    /\ served' = FALSE /\ tokensOut' = 0
    /\ UNCHANGED <<provider, said>>

ResetStream == streamTokens' = <<>> /\ streamError' = None /\ runMetrics' = None

\* The Run button, which a run disables.
ClickRun ==
    /\ mounted /\ ~isRunning
    /\ isRunning' = TRUE /\ ResetStream
    /\ OpenStream
    /\ UNCHANGED <<mounted, cleared>>

Cancel ==
    /\ mounted /\ isRunning
    /\ CloseStream
    /\ streamError' = "stopped" /\ isRunning' = FALSE
    /\ UNCHANGED <<streamTokens, runMetrics, mounted, cleared>>

\* Clear is offered during a run too, which goes on.
Clear ==
    /\ mounted /\ (streamTokens # <<>> \/ streamError # None)
    /\ ResetStream
    /\ cleared' = cleared \union {Run}
    /\ UNCHANGED <<isRunning, mounted, open, buffer, server, said>>

\* The page is left: the stream is aborted, and with the panel gone nobody sets isRunning.
Leave ==
    /\ mounted /\ mounted' = FALSE
    /\ IF open THEN CloseStream ELSE UNCHANGED <<open, buffer, server, said>>
    /\ UNCHANGED <<store, cleared>>

\* The store outlives the page.  If it says isRunning the effect opens a stream, whose
\* tokens follow those that are there.
Return ==
    /\ ~mounted /\ mounted' = TRUE
    /\ IF isRunning THEN OpenStream ELSE UNCHANGED <<open, buffer, server, said>>
    /\ UNCHANGED <<store, cleared>>

\* The tab is loaded anew.
Reload ==
    /\ Run > 0
    /\ isRunning' = FALSE /\ ResetStream /\ mounted' = TRUE
    /\ CloseStream
    /\ cleared' = cleared \union {Run}

-----------------------------------------------------------------------------
(* The server.                                                             *)

Writes(chunks) == down' = down \o Lines(chunks)

\* Mutant: every read is cut on its own.
AdapterReadsAfresh ==
    /\ open /\ ~served
    /\ \E read \in Reads(up) :
          LET cut == Cut(read)
              tokens == OfType("token", cut.chunks)
          IN  /\ provider = "sdk" => read = NextEvent(up)
              /\ up' = Unread(up, read) /\ pending' = <<>>
              /\ tokensOut' = tokensOut + Len(tokens)
              /\ Writes(tokens)
    /\ UNCHANGED <<store, mounted, open, buffer, served, provider, said, cleared>>

\* The provider's bytes, or its next event, arrive; each token is passed on as it is read.
AdapterReads ==
    /\ open /\ ~served
    /\ \E read \in Reads(up) :
          LET cut == Cut(pending \o read)
              tokens == OfType("token", cut.chunks)
          IN  /\ provider = "sdk" => read = NextEvent(up)
              /\ up' = Unread(up, read) /\ pending' = cut.rest
              /\ tokensOut' = tokensOut + Len(tokens)
              /\ Writes(tokens)
    /\ UNCHANGED <<store, mounted, open, buffer, served, provider, said, cleared>>

\* The provider's stream is at its end, whatever that was, and what is held of a line is
\* dropped; the controller stops at `done'.
AdapterEnds ==
    /\ open /\ ~served /\ up = <<>>
    /\ served' = TRUE
    /\ Writes(<<Metrics(tokensOut), Done>>)
    /\ UNCHANGED <<store, mounted, open, buffer, provider, up, pending, tokensOut, said, cleared>>

\* The budget check, the request to the provider or its connection fails, a client library
\* throws, or ten minutes have passed.
ServerFails ==
    /\ open /\ ~served
    /\ served' = TRUE /\ up' = <<>> /\ pending' = <<>>
    /\ Writes(<<Error>>)
    /\ UNCHANGED <<store, mounted, open, buffer, provider, tokensOut, said, cleared>>

-----------------------------------------------------------------------------
(* The panel reads.                                                        *)

\* The loop over the chunks of one read; the store is set without a pause in between.
Shows(chunks) ==
    LET at(type) == {i \in DOMAIN chunks : chunks[i].type = type} IN
    /\ streamTokens' = streamTokens \o OfType("token", chunks)
    /\ runMetrics' = IF at("metrics") = {} THEN runMetrics ELSE chunks[Max(at("metrics"))]
    /\ streamError' = IF at("error") = {} THEN streamError ELSE "failed"

\* Mutant: the rest of a read is forgotten when no line ended in it.
PanelReadsAfresh ==
    /\ open
    /\ \E read \in Reads(down) :
          LET cut == Cut(buffer \o read)
          IN  /\ down' = Unread(down, read)
              /\ buffer' = IF cut.chunks = <<>> THEN <<>> ELSE cut.rest
              /\ Shows(cut.chunks)
    /\ UNCHANGED <<isRunning, mounted, open, served, provider, up, pending, tokensOut>>
    /\ UNCHANGED <<said, cleared>>

PanelReads ==
    /\ open
    /\ \E read \in Reads(down) :
          LET cut == Cut(buffer \o read)
          IN  /\ down' = Unread(down, read) /\ buffer' = cut.rest
              /\ Shows(cut.chunks)
    /\ UNCHANGED <<isRunning, mounted, open, served, provider, up, pending, tokensOut>>
    /\ UNCHANGED <<said, cleared>>

\* End of the response: what is left in the buffer is a line too.
PanelEnds ==
    /\ open /\ served /\ down = <<>>
    /\ Shows(Parsed(buffer))
    /\ CloseStream
    /\ isRunning' = FALSE
    /\ UNCHANGED <<mounted, cleared>>

Breaks(message) ==
    /\ CloseStream
    /\ streamError' = message /\ isRunning' = FALSE
    /\ UNCHANGED <<streamTokens, runMetrics, mounted, cleared>>

\* Mutant: the timeout ends with the answer's first token.
TimesOutWaiting == open /\ streamTokens = <<>> /\ Breaks("timed_out")

\* AbortSignal.timeout, which covers the answer's body too.
StreamTimesOut == open /\ Breaks("timed_out")

\* A status that is not 2xx (the session, the CSRF token, the rate limit), or a connection lost.
RequestFails == open /\ Breaks("failed")

StreamsNext ==
    \/ ClickRun \/ Cancel \/ Clear \/ Leave \/ Return \/ Reload
    \/ AdapterReads \/ AdapterEnds \/ ServerFails
    \/ PanelReads \/ PanelEnds \/ StreamTimesOut \/ RequestFails

StreamsSpec == StreamsInit /\ [][StreamsNext]_streamVars

\* The browser's timer fires.  The provider and the network need not deliver.
FairStreams == StreamsSpec /\ WF_streamVars(StreamTimesOut)

-----------------------------------------------------------------------------
(* Properties.                                                             *)

\* However the bytes are cut on their two ways, the output shows each answer's tokens in
\* their order with none missing in between and none twice; an answer that was not wiped
\* is shown from its first token on; and what a later run adds comes after it.
OutputInOrder ==
    \A i \in DOMAIN streamTokens :
        LET t == streamTokens[i]
            starts == i = 1 \/ streamTokens[i - 1].run # t.run
        IN  /\ ~starts => t.n = streamTokens[i - 1].n + 1
            /\ starts /\ t.run \notin cleared => t.n = 1
            /\ i > 1 => streamTokens[i - 1].run <= t.run

\* A run that ended with no error on screen, and was not wiped.
CleanRun == ~isRunning /\ streamError = None /\ Run > 0 /\ Run \notin cleared

\* It shows every token that the provider's stream had in whole lines, which is the whole
\* answer if the stream had its `done', and the token count of the metrics panel is theirs.
CleanRunIsWhole ==
    LET shown == {i \in DOMAIN streamTokens : streamTokens[i].run = Run} IN
    CleanRun => Cardinality(shown) = answers[Run] /\ runMetrics = Metrics(answers[Run])

\* It shows the whole answer.  Refuted: an adapter takes any end of the stream for the end of
\* the answer, and Ollama's in-band error for nothing; metrics and `done' follow, and the
\* output breaks off with no error on screen.
CleanRunIsComplete == CleanRun => finished

\* A run on screen ends, or the page is left, although a provider may never answer.
RunsEnd == isRunning /\ mounted ~> ~isRunning \/ ~mounted
=============================================================================
