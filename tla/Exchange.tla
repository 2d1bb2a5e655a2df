------------------------------- MODULE Exchange -------------------------------
(***************************************************************************)
(* One client's request and what is made of it on its way: converted for   *)
(* each candidate the failover loop tries, answered whole or as a stream,  *)
(* converted back.  The body of ChatCompletions and Messages around the    *)
(* calls that Failover models, with the contents that Failover leaves out. *)
(***************************************************************************)
EXTENDS Conversion, Naturals

CONSTANTS Inputs,               \* the requests that clients send
          Candidates,           \* the providers of the candidates, in the order of Route
          Answers(_),           \* what a provider may answer
          Streams(_)            \* the streams it may send, line by line

-----------------------------------------------------------------------------
(* What the two APIs let a body look like, whatever it says. *)

IsSequence(s) == s \in Seq(ToSet(s))

WellFormedContent(style, content) ==
    /\ content # Absent
    /\ \/ IsText(content)
       \/ content.form = "null" /\ style = "openai"
       \/ /\ content.form = "blocks" /\ IsSequence(content.blocks)
          /\ \A b \in ToSet(content.blocks) :
                b.type \notin IF style = "openai" THEN {"image", "tool_use", "tool_result"}
                             ELSE {"image_url"}

WellFormedMessage(style, m) ==
    /\ WellFormedContent(style, m.content)
    /\ IsSequence(m.toolCalls)
    /\ m.toolCalls # <<>> => style = "openai" /\ m.role = "assistant"
    /\ style = "anthropic" => m.role \in {"user", "assistant"}

WellFormedRequest(style, req) ==
    /\ req # Absent
    /\ IsSequence(req.messages) /\ \A m \in ToSet(req.messages) : WellFormedMessage(style, m)
    /\ IsSequence(req.tools)
    /\ IF style = "openai"
       THEN /\ req.system = Absent /\ req.stopSequences = Absent
            /\ req.stop = Absent \/ IsText(req.stop) \/ req.stop.form = "blocks"
       ELSE /\ req.stop = Absent /\ req.limit # Absent
            /\ \/ req.stopSequences = Absent
               \/ req.stopSequences.form = "blocks" /\ IsSequence(req.stopSequences.blocks)

ASSUME InputsAssumption ==
    \A input \in Inputs : /\ input.endpoint \in Style /\ input.style \in Style
                          /\ WellFormedRequest(input.style, input.body)

ASSUME CandidatesAssumption == Candidates \subseteq Seq(Style)

(* The reasons for which each API says that an answer has ended. *)
StopReason == {"end_turn", "max_tokens", "stop_sequence", "tool_use", "pause_turn", "refusal"}
FinishReason == {Absent, "stop", "length", "content_filter", "tool_calls", "function_call"}

WellFormedAnswer(style, body) ==
    /\ body.style = style /\ body.kind \in {"answer", "error", "bytes"}
    /\ body.kind = "answer" =>
          IF style = "openai"
          THEN /\ \/ IsText(body.content) /\ IsSequence(body.content.text)
                  \/ body.content.form = "null"
               /\ body.finish \in FinishReason
          ELSE /\ body.content.form = "blocks" /\ body.finish \in StopReason

ASSUME AnswersAssumption ==
    \A style \in Style : \A body \in Answers(style) : WellFormedAnswer(style, body)

(* The line tells its client that the answer is over. *)
Finished(line) == line = Done \/ (line.line = "data" /\ line.finish # Absent)

(* No words follow the line that ends an answer. *)
WellFormedStream(style, lines) ==
    /\ IsSequence(lines)
    /\ \A line \in ToSet(lines) :
          \/ line.line = "event"
          \/ /\ line.line = "data" /\ IsSequence(line.words) /\ line.quoted
             /\ style = "anthropic" => line.type # "chunk"
    /\ \A i, j \in DOMAIN lines :
          /\ i < j /\ lines[j].line = "data"
          /\ Finished(lines[i]) \/ (lines[i].line = "data" /\ lines[i].type = "message_delta")
          => lines[j].words = <<>>

ASSUME StreamsAssumption ==
    \A style \in Style : \A lines \in Streams(style) : WellFormedStream(style, lines)

-----------------------------------------------------------------------------
VARIABLES phase, in, rest,      \* the request, and the candidates still to try
          sent,                 \* what the candidate in turn was sent
          answer, intact,       \* the answer to the client, and whether it arrives whole
          stream, next,         \* the upstream's stream, and the next line to be read
          received,             \* the lines that the client has been sent
          reply                 \* history: the answer of the upstream

exchangeVars == <<phase, in, rest, sent, answer, intact, stream, next, received, reply>>

Init == /\ phase = "new" /\ in \in Inputs /\ rest \in Candidates
        /\ sent = Absent /\ answer = Absent /\ intact = TRUE
        /\ stream = <<>> /\ next = 1 /\ received = <<>> /\ reply = Absent

(* The handler's guess at the style of the body: only "auto" is looked at twice. *)
clientStyle == IF in.auto THEN DetectAPIStyle(in) ELSE in.endpoint

provider == Head(rest)

(* The conversion panics: the recovery middleware answers 500 without a body, and *)
(* no further candidate is tried.                                                  *)
Unconvertible == clientStyle = "openai" /\ provider = "anthropic" /\ Panics(in.body.messages)

Recovered == /\ phase \in {"new", "failed"} /\ rest # <<>>
             /\ Unconvertible
             /\ phase' = "done"
             /\ UNCHANGED <<in, rest, sent, answer, intact, stream, next, received, reply>>

ConvertsInPlace ==      \* mutated Convert: the last candidate's body is converted again
    /\ phase \in {"new", "failed"} /\ rest # <<>> /\ ~Unconvertible
    /\ phase' = "waiting"
    /\ sent' = TransformRequest(IF sent = Absent THEN in.body ELSE sent, clientStyle, provider)
    /\ UNCHANGED <<in, rest, answer, intact, stream, next, received, reply>>

(* One turn of the loop: the candidate is sent the client's body, converted. *)
Convert == /\ phase \in {"new", "failed"} /\ rest # <<>>
           /\ ~Unconvertible
           /\ phase' = "waiting"
           /\ sent' = TransformRequest(in.body, clientStyle, provider)
           /\ UNCHANGED <<in, rest, answer, intact, stream, next, received, reply>>

KeepsWaiting ==         \* mutated Fails: the next candidate is not called
    /\ phase = "waiting"
    /\ rest' = Tail(rest)
    /\ UNCHANGED <<phase, in, sent, answer, intact, stream, next, received, reply>>

(* No connection, 5xx, 401 or 404: on to the next candidate. *)
Fails == /\ phase = "waiting"
         /\ phase' = "failed" /\ rest' = Tail(rest)
         /\ UNCHANGED <<in, sent, answer, intact, stream, next, received, reply>>

(* 503 in the endpoint's own form. *)
Unavailable == /\ phase \in {"new", "failed"} /\ rest = <<>>
               /\ phase' = "done"
               /\ answer' = FormatError(in.endpoint, "internal_error", "upstream error")
               /\ UNCHANGED <<in, rest, sent, intact, stream, next, received, reply>>

UsesDetectedStyle ==    \* mutated Answered: converted to the style of the request
    /\ phase = "waiting" /\ ~in.stream
    /\ phase' = "done"
    /\ \E body \in Answers(provider) :
        reply' = body /\ answer' = TransformResponse(body, clientStyle, provider)
    /\ UNCHANGED <<in, rest, sent, intact, stream, next, received>>

(* Any other status counts as an answer and is converted.  The upstream's headers  *)
(* are copied: a Content-Length, when declared, is that of the body before it was   *)
(* converted, and net/http delivers no body whose length differs from it.           *)
Answered == /\ phase = "waiting" /\ ~in.stream
            /\ phase' = "done"
            /\ \E body \in Answers(provider), declared \in BOOLEAN :
                /\ reply' = body
                /\ answer' = TransformResponse(body, in.endpoint, provider)
                /\ intact' \in (IF declared /\ answer' # body THEN BOOLEAN ELSE {TRUE})
            /\ UNCHANGED <<in, rest, sent, stream, next, received>>

StartStream == /\ phase = "waiting" /\ in.stream
               /\ phase' = "streaming"
               /\ stream' \in Streams(provider)
               /\ UNCHANGED <<in, rest, sent, answer, intact, next, received, reply>>

(* A refusal, 400 say, has no line that starts with "data:": the client gets an *)
(* empty stream with status 200.                                                 *)
StreamRefused == /\ phase = "waiting" /\ in.stream
                 /\ phase' = "done"
                 /\ reply' \in {body \in Answers(provider) : body.kind = "error"}
                 /\ UNCHANGED <<in, rest, sent, answer, intact, stream, next, received>>

(* One line of the stream.  [DONE] ends it, and only OpenAI's handler passes it on. *)
RelayLine ==
    /\ phase = "streaming" /\ next <= Len(stream)
    /\ next' = next + 1
    /\ IF stream[next] = Done
       THEN /\ phase' = "done"
            /\ received' = IF in.endpoint = "openai" THEN Append(received, Done) ELSE received
       ELSE /\ received' = received \o Relayed(stream[next], in.endpoint, provider)
            /\ UNCHANGED phase
    /\ UNCHANGED <<in, rest, sent, answer, intact, stream, reply>>

AlwaysDone ==           \* mutated EndStream: every stream is ended in good form
    /\ phase = "streaming"
    /\ phase' = "done" /\ received' = Append(received, Done)
    /\ UNCHANGED <<in, rest, sent, answer, intact, stream, next, reply>>

(* The stream is over, or cut: by the upstream, the network or the timeout. *)
EndStream == /\ phase = "streaming"
             /\ phase' = "done"
             /\ UNCHANGED <<in, rest, sent, answer, intact, stream, next, received, reply>>

Terminated == phase = "done" /\ UNCHANGED exchangeVars

Next == \/ Recovered \/ Convert \/ Fails \/ Unavailable \/ Answered
        \/ StartStream \/ StreamRefused \/ RelayLine \/ EndStream \/ Terminated

Spec == Init /\ [][Next]_exchangeVars

-----------------------------------------------------------------------------
(* How each API reads a request: who says what, in which order.  An empty text *)
(* says nothing.                                                                *)

SystemTurns(req) == IF req.system # Absent /\ Says(req.system)
                    THEN <<[who |-> "system", what |-> req.system.text]>> ELSE <<>>

BlockTurn(style, role, b) ==
    CASE b.type = "text" -> <<[who |-> role, what |-> b.text]>>
      [] b.type = "image_url" /\ style = "openai" -> <<[who |-> role, what |-> b.url]>>
      [] b.type = "image" /\ style = "anthropic" -> <<[who |-> role, what |-> b.url]>>
      [] b.type = "tool_use" /\ style = "anthropic" -> <<[who |-> "call", what |-> b.id]>>
      [] b.type = "tool_result" /\ style = "anthropic" ->
            <<[who |-> "result", what |-> b.id]>>
      [] OTHER -> <<>>

Spoken(style, m) ==
    IF m.role = "tool" THEN <<[who |-> "result", what |-> m.answers]>>
    ELSE CASE Says(m.content) -> <<[who |-> m.role, what |-> m.content.text]>>
           [] m.content.form = "blocks" -> FlattenSeq([i \in DOMAIN m.content.blocks |->
                                               BlockTurn(style, m.role, m.content.blocks[i])])
           [] OTHER -> <<>>

Calls(m) == [i \in DOMAIN m.toolCalls |-> [who |-> "call", what |-> m.toolCalls[i].id]]

MessageTurns(style, m) == Spoken(style, m) \o Calls(m)

Turns(style, req) ==
    SystemTurns(req) \o
    FlattenSeq([i \in DOMAIN req.messages |-> MessageTurns(style, req.messages[i])])

(* The turns without the prompts of the system, which have a place of their own. *)
Dialogue(style, req) ==
    FlattenSeq([i \in DOMAIN req.messages |->
        IF req.messages[i].role = "system" THEN <<>> ELSE MessageTurns(style, req.messages[i])])

(* How much of s the first j elements of t contain, in order. *)
Found(s, t) ==
    LET found[j \in 0..Len(t)] ==
            IF j = 0 THEN 0
            ELSE IF found[j - 1] < Len(s) /\ s[found[j - 1] + 1] = t[j] THEN found[j - 1] + 1
            ELSE found[j - 1]
    IN  found

(* s is what is left of t when some elements are taken out. *)
Within(s, t) == Found(s, t)[Len(t)] = Len(s)

(* The requests that lose nothing of what is said on the way to the other style. *)
Plain(style, m) ==
    \/ IsText(m.content)
    \/ IF style = "openai" THEN m.content = Null /\ m.toolCalls # <<>>
       ELSE \A i \in DOMAIN m.content.blocks : m.content.blocks[i].type = "text"

SystemFirst == IF in.style = "openai"
               THEN \A i \in DOMAIN in.body.messages : in.body.messages[i].role = "system" => i = 1
               ELSE in.body.system = Absent \/ IsText(in.body.system)

PlainRequest == SystemFirst /\ \A i \in DOMAIN in.body.messages : Plain(in.style, in.body.messages[i])

(* What a line, and a stream of them, says to a client of its style. *)
Said(style, line) ==
    IF /\ line.line = "data" /\ line.quoted
       /\ line.type = IF style = "openai" THEN "chunk" ELSE "content_block_delta"
    THEN line.words ELSE <<>>

Words(style, lines) == FlattenSeq([i \in DOMAIN lines |-> Said(style, lines[i])])

AnswerWords(body) ==
    CASE IsText(body.content) -> body.content.text
      [] body.content.form = "blocks" -> extractAnthropicContent(body.content)
      [] OTHER -> <<>>

-----------------------------------------------------------------------------
(* Properties. *)

TypeOK ==
    /\ phase \in {"new", "waiting", "failed", "streaming", "done"}
    /\ in \in Inputs /\ rest \in Seq(Style) /\ intact \in BOOLEAN
    /\ next \in 1..Len(stream) + 1
    /\ phase \in {"waiting", "streaming"} => rest # <<>> /\ sent # Absent

(* Whichever candidates failed before, the one in turn is told the client's own  *)
(* conversation: nothing is added or moved, and nothing is lost of a plain       *)
(* request.  Every candidate's body comes from the original: TransformRequest in *)
(* the loop of ChatCompletions and Messages.                                     *)
ConversationKept ==
    phase = "waiting" /\ clientStyle = in.style =>
        /\ Within(Dialogue(provider, sent), Dialogue(in.style, in.body))
        /\ PlainRequest => Turns(provider, sent) = Turns(in.style, in.body)

(* The stop sequences reach every candidate, all of them and under its own name for *)
(* them; tools reach an OpenAI candidate with their names and schemas; a candidate   *)
(* of Anthropic's style, whose API demands a token limit, is given one.              *)
Stops(req) == LET stops == {req.stop, req.stopSequences} \ {Absent}
              IN  (UNION {IF IsText(s) THEN {s.text} ELSE ToSet(s.blocks) : s \in stops}) \ {""}

ToolSet(style, req) ==
    IF style = "openai" THEN {tool.function : tool \in ToSet(req.tools)}
    ELSE {[name |-> tool.name, parameters |-> tool.schema] : tool \in ToSet(req.tools)}

SettingsKept ==
    phase = "waiting" /\ clientStyle = in.style =>
        /\ Stops(sent) = Stops(in.body)
        /\ provider = "openai" =>
                /\ sent.stopSequences = Absent /\ sent.system = Absent
                /\ ToolSet("openai", sent) = ToolSet(in.style, in.body)
        /\ provider = "anthropic" => sent.stop = Absent /\ sent.limit # Absent

(* A client that is answered at all is answered in the form of its endpoint, even *)
(* when the style of its request was detected as the other one: same words, an    *)
(* error as an error of the same kind and message, and for an Anthropic client a  *)
(* stop reason of that API: TransformResponse, FormatError.                       *)
AnsweredInOwnForm ==
    answer # Absent /\ answer.kind # "bytes" =>
        /\ answer.style = in.endpoint
        /\ reply # Absent => answer.kind = reply.kind
        /\ reply # Absent /\ answer.kind = "answer" => AnswerWords(answer) = AnswerWords(reply)
        /\ reply # Absent /\ answer.kind = "error" =>
                answer.message = reply.message /\ answer.type \in {reply.type, reply.code}
        /\ answer.kind = "answer" /\ in.endpoint = "anthropic" => answer.finish \in StopReason

(* An OpenAI client, and any client of its upstream's style, is told the words of   *)
(* the stream in order and none twice, up to the line where it stands; and no       *)
(* stream that was cut inside its text looks finished to its client.                *)
Told == Words(provider, SubSeq(stream, 1, next - 1))

StreamKept ==
    stream # <<>> =>
        /\ in.endpoint \in {"openai", provider} => Words(in.endpoint, received) = Told
        /\ (\E i \in DOMAIN received : Finished(received[i])) => Told = Words(provider, stream)

(* README.md:343: in a stream each event is converted, so that an Anthropic client *)
(* can read the words of an OpenAI upstream.                                        *)
StreamReadable ==
    stream # <<>> => Words(in.endpoint, received) = Told

(* README.md:331: an answer in the other style is converted for the client, and so *)
(* reaches it.                                                                      *)
ConvertedArrives == phase = "done" => intact
=============================================================================
