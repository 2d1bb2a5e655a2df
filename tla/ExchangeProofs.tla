---------------------------- MODULE ExchangeProofs -----------------------------
(***************************************************************************)
(* What Exchange promises, for every set of requests, candidates, answers  *)
(* and streams that the two APIs allow: the assumptions of Exchange say    *)
(* what they do.                                                           *)
(*                                                                         *)
(* RequestInv: the body that the candidate in turn was sent is the         *)
(* conversion of the client's own, whatever was tried before.  AnswerInv:  *)
(* the answer is the gateway's own error or the conversion of one answer   *)
(* of that candidate.  RelayInv: an OpenAI client has been told the words  *)
(* of the lines read so far, and no client of an ending that was not among *)
(* them.  The rest is about operators: what a conversion keeps of a        *)
(* request, of an answer and of a line.                                    *)
(***************************************************************************)
EXTENDS Exchange, SequenceLemmas

(* Absent is nothing that a body holds, a model value in TLC's runs. *)
AbsentApart ==
    /\ Absent # "stop" /\ Absent # DefaultLimit
    /\ \A x : Text(x) # Absent /\ Blocks(x) # Absent
    /\ \A messages, system, limit, stop, stopSequences, tools, choice :
          [messages |-> messages, system |-> system, limit |-> limit, stop |-> stop,
           stopSequences |-> stopSequences, tools |-> tools, choice |-> choice] # Absent

(* Before an answer nothing is kept of an earlier candidate but what it was sent. *)
RequestInv ==
    /\ phase \in {"new", "waiting", "failed", "streaming", "done"}
    /\ in \in Inputs /\ rest \in Seq(Style) /\ intact \in BOOLEAN
    /\ phase \in {"waiting", "streaming"} =>
          rest # <<>> /\ sent = TransformRequest(in.body, clientStyle, provider)
    /\ phase # "done" => answer = Absent /\ reply = Absent

AnswerInv ==
    \/ answer = Absent
    \/ reply = Absent /\ answer = FormatError(in.endpoint, "internal_error", "upstream error")
    \/ /\ rest # <<>> /\ reply \in Answers(provider)
       /\ answer = TransformResponse(reply, in.endpoint, provider)

LEMMA InputFacts ==
    ASSUME in \in Inputs
    PROVE  in.endpoint \in Style /\ in.style \in Style /\ WellFormedRequest(in.style, in.body)
  BY InputsAssumption

LEMMA ProviderType ==
    ASSUME rest \in Seq(Style), rest # <<>>
    PROVE  provider \in Style
  BY DEF provider

LEMMA RequestInductive == Spec => [](RequestInv /\ AnswerInv)
<1>1. Init => RequestInv /\ AnswerInv
  BY CandidatesAssumption DEF Init, RequestInv, AnswerInv
<1>2. RequestInv /\ AnswerInv /\ [Next]_exchangeVars => (RequestInv /\ AnswerInv)'
  <2> SUFFICES ASSUME RequestInv, AnswerInv, [Next]_exchangeVars
               PROVE  RequestInv' /\ AnswerInv'
    OBVIOUS
  <2> USE DEF RequestInv, AnswerInv, clientStyle, provider
  <2>1. CASE Recovered
    BY <2>1 DEF Recovered
  <2>2. CASE Convert
    BY <2>2 DEF Convert
  <2>3. CASE Fails
    BY <2>3 DEF Fails
  <2>4. CASE Unavailable
    BY <2>4 DEF Unavailable
  <2>5. CASE Answered
    BY <2>5 DEF Answered
  <2>6. CASE StartStream
    BY <2>6 DEF StartStream
  <2>7. CASE StreamRefused
    BY <2>7 DEF StreamRefused
  <2>8. CASE RelayLine
    BY <2>8 DEF RelayLine
  <2>9. CASE EndStream
    BY <2>9 DEF EndStream
  <2>10. CASE Terminated \/ UNCHANGED exchangeVars
    BY <2>10 DEF Terminated, exchangeVars
  <2> QED
    BY <2>1, <2>2, <2>3, <2>4, <2>5, <2>6, <2>7, <2>8, <2>9, <2>10 DEF Next
<1> QED
  BY <1>1, <1>2, PTL DEF Spec

-----------------------------------------------------------------------------
(* Requests. *)

LEMMA SentShape ==
    ASSUME AbsentApart, NEW req, req # Absent, NEW from \in Style, NEW to \in Style
    PROVE  TransformRequest(req, from, to) # Absent
  BY Zenon DEF AbsentApart, TransformRequest, OpenAIRequestToAnthropic, AnthropicRequestToOpenAI, Style

(* The sequences that a stop field holds. *)
StopSet(stop) == IF IsText(stop) THEN {stop.text} ELSE ToSet(stop.blocks)

LEMMA StopsOfOne ==
    ASSUME NEW req, req.stop = Absent \/ req.stopSequences = Absent
    PROVE  Stops(req) = (IF req.stop # Absent THEN StopSet(req.stop)
                         ELSE IF req.stopSequences # Absent THEN StopSet(req.stopSequences)
                         ELSE {}) \ {""}
<1>1. CASE req.stop = Absent /\ req.stopSequences = Absent
  <2>1. {req.stop, req.stopSequences} \ {Absent} = {}
    BY <1>1
  <2> QED
    BY <1>1, <2>1 DEF Stops
<1>2. CASE req.stop # Absent
  <2>1. {req.stop, req.stopSequences} \ {Absent} = {req.stop}
    BY <1>2
  <2> QED
    <3>1. Stops(req) = (UNION {StopSet(stop) : stop \in {req.stop}}) \ {""}
      BY <2>1 DEF Stops, StopSet
    <3>2. UNION {StopSet(stop) : stop \in {req.stop}} = StopSet(req.stop)
      OBVIOUS
    <3> QED
      BY <1>2, <3>1, <3>2
<1>3. CASE req.stop = Absent /\ req.stopSequences # Absent
  <2>1. {req.stop, req.stopSequences} \ {Absent} = {req.stopSequences}
    BY <1>3
  <2> QED
    <3>1. Stops(req) = (UNION {StopSet(stop) : stop \in {req.stopSequences}}) \ {""}
      BY <2>1 DEF Stops, StopSet
    <3>2. UNION {StopSet(stop) : stop \in {req.stopSequences}} = StopSet(req.stopSequences)
      OBVIOUS
    <3> QED
      BY <1>3, <3>1, <3>2
<1> QED
  BY <1>1, <1>2, <1>3

LEMMA StopSetForms ==
    ASSUME NEW x
    PROVE  StopSet(Text(x)) = {x} /\ StopSet(Blocks(x)) = ToSet(x) /\ ToSet(<<x>>) = {x} /\ ToSet(<<>>) = {}
<1>1. DOMAIN <<x>> = {1} /\ <<x>>[1] = x /\ DOMAIN <<>> = {}
  OBVIOUS
<1>2. ToSet(<<x>>) = {x} /\ ToSet(<<>>) = {}
  BY <1>1 DEF ToSet
<1> QED
  BY <1>2 DEF StopSet, Text, Blocks, IsText

LEMMA SettingsToAnthropic ==
    ASSUME AbsentApart, NEW req, WellFormedRequest("openai", req),
           NEW new, new = OpenAIRequestToAnthropic(req)
    PROVE  Stops(new) = Stops(req) /\ new.stop = Absent /\ new.limit # Absent
<1>1. /\ new.stop = Absent /\ new.stopSequences = stopToAnthropic(req.stop)
      /\ new.limit = IF req.limit = Absent THEN DefaultLimit ELSE req.limit
  BY DEF OpenAIRequestToAnthropic
<1>2. req.stopSequences = Absent
  BY DEF WellFormedRequest
<1>3. CASE req.stop = Absent
  <2>1. new.stopSequences = Absent
    BY <1>1, <1>3 DEF stopToAnthropic
  <2> QED
    BY <1>1, <1>2, <1>3, <2>1, StopsOfOne DEF AbsentApart
<1>4. CASE req.stop # Absent /\ Says(req.stop)
  <2>1. new.stopSequences = Blocks(<<req.stop.text>>)
    BY <1>1, <1>4 DEF stopToAnthropic, Says
  <2>2. StopSet(new.stopSequences) = StopSet(req.stop) /\ new.stopSequences # Absent
    <3> DEFINE x == req.stop.text
               y == <<x>>
    <3>1. ToSet(y) = {x} /\ StopSet(req.stop) = {x}
      BY <1>4, StopSetForms DEF StopSet, Says
    <3> HIDE DEF y
    <3>2. StopSet(Blocks(y)) = ToSet(y) /\ Blocks(y) # Absent
      BY StopSetForms DEF AbsentApart
    <3> QED
      BY <2>1, <3>1, <3>2 DEF y
  <2>3. /\ Stops(new) = StopSet(new.stopSequences) \ {""}
        /\ Stops(req) = StopSet(req.stop) \ {""}
    BY <1>1, <1>2, <1>4, <2>2, StopsOfOne
  <2> QED
    BY <1>1, <2>2, <2>3 DEF AbsentApart
<1>5. CASE req.stop # Absent /\ ~IsText(req.stop)
  <2>1. new.stopSequences = req.stop
    BY <1>1, <1>5 DEF stopToAnthropic
  <2>2. /\ Stops(new) = StopSet(new.stopSequences) \ {""}
        /\ Stops(req) = StopSet(req.stop) \ {""}
    BY <1>1, <1>2, <1>5, <2>1, StopsOfOne
  <2> QED
    BY <1>1, <2>1, <2>2 DEF AbsentApart
<1>6. CASE req.stop # Absent /\ IsText(req.stop) /\ ~Says(req.stop)
  <2>1. new.stopSequences = Absent
    BY <1>1, <1>6 DEF stopToAnthropic
  <2>2. StopSet(req.stop) \ {""} = {}
    BY <1>6 DEF StopSet, Says
  <2>3. Stops(new) = {} /\ Stops(req) = StopSet(req.stop) \ {""}
    BY <1>1, <1>2, <1>6, <2>1, StopsOfOne
  <2> QED
    BY <1>1, <2>2, <2>3 DEF AbsentApart
<1> QED
  BY <1>3, <1>4, <1>5, <1>6

LEMMA SettingsToOpenAI ==
    ASSUME AbsentApart, NEW req, WellFormedRequest("anthropic", req),
           NEW new, new = AnthropicRequestToOpenAI(req)
    PROVE  /\ Stops(new) = Stops(req) /\ new.stopSequences = Absent /\ new.system = Absent
           /\ ToolSet("openai", new) = ToolSet("anthropic", req)
<1>1. /\ new.stop = stopToOpenAI(req.stopSequences) /\ new.stopSequences = Absent
      /\ new.system = Absent /\ new.tools = convertToolsToOpenAI(req.tools)
  BY DEF AnthropicRequestToOpenAI
<1> DEFINE stops == req.stopSequences
<1>2. /\ req.stop = Absent /\ req.tools \in Seq(ToSet(req.tools))
      /\ stops # Absent => stops.form = "blocks" /\ stops.blocks \in Seq(ToSet(stops.blocks))
  BY DEF WellFormedRequest, IsSequence
<1>3. Stops(new) = Stops(req)
  <2>1. Stops(req) = (IF stops # Absent THEN StopSet(stops) ELSE {}) \ {""}
    BY <1>2, StopsOfOne
  <2>2. Stops(new) = (IF new.stop # Absent THEN StopSet(new.stop) ELSE {}) \ {""}
    BY <1>1, StopsOfOne
  <2>3. stops # Absent => StopSet(stops) = ToSet(stops.blocks)
    BY <1>2 DEF StopSet, IsText
  <2>4. CASE stops = Absent \/ stops = Blocks(<<>>)
    <3>1. new.stop = Absent
      BY <1>1, <2>4 DEF stopToOpenAI
    <3>2. stops # Absent => StopSet(stops) = {}
      BY <2>4, StopSetForms
    <3> QED
      BY <2>1, <2>2, <3>1, <3>2
  <2>5. CASE stops # Absent /\ stops # Blocks(<<>>) /\ Len(stops.blocks) = 1
    <3>1. new.stop = Text(stops.blocks[1]) /\ new.stop # Absent
      BY <1>1, <2>5 DEF stopToOpenAI, AbsentApart
    <3> DEFINE x == stops.blocks[1]
               y == <<x>>
    <3>2. stops.blocks = y
      BY <1>2, <2>5
    <3>3. ToSet(y) = {x} /\ StopSet(Text(x)) = {x}
      BY StopSetForms
    <3> QED
      BY <2>1, <2>2, <2>3, <2>5, <3>1, <3>2, <3>3
  <2>6. CASE stops # Absent /\ stops # Blocks(<<>>) /\ Len(stops.blocks) # 1
    <3>1. new.stop = stops
      BY <1>1, <2>6 DEF stopToOpenAI
    <3> QED
      BY <2>1, <2>2, <2>6, <3>1
  <2> QED
    BY <2>4, <2>5, <2>6
<1>4. ToolSet("openai", new) = ToolSet("anthropic", req)
  <2> DEFINE Function(tool) == [name |-> tool.name, parameters |-> tool.schema]
  <2>1. /\ DOMAIN new.tools = DOMAIN req.tools
        /\ \A i \in DOMAIN req.tools : new.tools[i].function = Function(req.tools[i])
    BY <1>1 DEF convertToolsToOpenAI, Tool
  <2>2. ToolSet("openai", new) = {new.tools[i].function : i \in DOMAIN new.tools}
    BY DEF ToolSet, ToSet
  <2>3. ToolSet("anthropic", req) = {Function(req.tools[i]) : i \in DOMAIN req.tools}
    BY DEF ToolSet, ToSet
  <2> DEFINE F == {new.tools[i].function : i \in DOMAIN new.tools}
             G == {Function(req.tools[i]) : i \in DOMAIN req.tools}
  <2>4. F = G
    <3> HIDE DEF Function
    <3> QED
      BY <2>1
  <2> QED
    BY <2>2, <2>3, <2>4
<1> QED
  BY <1>1, <1>3, <1>4

(* Every stop sequence reaches every candidate under its own name for it, tools *)
(* reach an OpenAI candidate whole, and an Anthropic candidate is given a limit: *)
(* TransformRequest, for each turn of the loop from the client's own body.       *)
THEOREM SettingsSurvive == ASSUME AbsentApart PROVE Spec => []SettingsKept
<1>1. RequestInv => SettingsKept
  <2> SUFFICES ASSUME RequestInv, phase = "waiting", clientStyle = in.style
               PROVE  /\ Stops(sent) = Stops(in.body)
                      /\ provider = "openai" =>
                              /\ sent.stopSequences = Absent /\ sent.system = Absent
                              /\ ToolSet("openai", sent) = ToolSet(in.style, in.body)
                      /\ provider = "anthropic" => sent.stop = Absent /\ sent.limit # Absent
    BY DEF SettingsKept
  <2>1. /\ in.style \in Style /\ WellFormedRequest(in.style, in.body)
        /\ provider \in Style /\ sent = TransformRequest(in.body, in.style, provider)
    BY InputFacts, ProviderType DEF RequestInv
  <2>2. CASE in.style = "openai" /\ provider = "anthropic"
    <3>1. sent = OpenAIRequestToAnthropic(in.body)
      BY <2>1, <2>2 DEF TransformRequest
    <3> QED
      BY <2>1, <2>2, <3>1, SettingsToAnthropic
  <2>3. CASE in.style = "anthropic" /\ provider = "openai"
    <3>1. sent = AnthropicRequestToOpenAI(in.body)
      BY <2>1, <2>3 DEF TransformRequest
    <3> QED
      BY <2>1, <2>3, <3>1, SettingsToOpenAI
  <2>4. CASE in.style = provider
    <3>1. sent = in.body
      BY <2>1, <2>4 DEF TransformRequest, Style
    <3> QED
      BY <2>1, <2>4, <3>1 DEF WellFormedRequest
  <2> QED
    BY <2>1, <2>2, <2>3, <2>4 DEF Style
<1> QED
  BY <1>1, RequestInductive, PTL

-----------------------------------------------------------------------------
(* Answers. *)

(* One text block says its text. *)
LEMMA OneBlockSays ==
    ASSUME NEW t, IsSequence(t)
    PROVE  extractAnthropicContent(Blocks(<<TextBlock(t)>>)) = t
<1> DEFINE block == TextBlock(t)
           blocks == <<block>>
           pieces == [i \in DOMAIN blocks |-> IF blocks[i].type = "text" THEN blocks[i].text ELSE <<>>]
<1>1. block.type = "text" /\ block.text = t
  BY DEF TextBlock
<1> HIDE DEF block
<1>2. DOMAIN blocks = 1..1 /\ blocks[1] = block
  OBVIOUS
<1> HIDE DEF blocks
<1>3. pieces = <<t>>
  <2>1. DOMAIN pieces = 1..1 /\ pieces[1] = t
    BY <1>1, <1>2
  <2> QED
    BY <2>1, <1>2
<1>4. FlattenSeq(<<t>>) = t
  BY FlattenFew DEF IsSequence
<1>5. extractAnthropicContent(Blocks(blocks)) = FlattenSeq(pieces)
  BY DEF extractAnthropicContent, Blocks
<1> QED
  BY <1>3, <1>4, <1>5 DEF blocks, block

LEMMA AnswerToOpenAI ==
    ASSUME NEW body, WellFormedAnswer("anthropic", body), body.kind # "bytes",
           NEW new, new = TransformResponse(body, "openai", "anthropic")
    PROVE  /\ new.style = "openai" /\ new.kind = body.kind
           /\ new.kind = "answer" => AnswerWords(new) = AnswerWords(body)
           /\ new.kind = "error" => new.message = body.message /\ new.type = body.type
<1>1. CASE body.kind = "error"
  BY <1>1 DEF TransformResponse, TransformAnthropicErrorToOpenAI, Error
<1>2. CASE body.kind = "answer"
  <2> DEFINE words == extractAnthropicContent(body.content)
  <2>1. /\ new.style = "openai" /\ new.kind = "answer" /\ new.content = Text(words)
    BY <1>2 DEF TransformResponse, AnthropicResponseToOpenAI, Answer
  <2>2. AnswerWords(new) = words
    BY <2>1 DEF AnswerWords, IsText, Text
  <2>3. AnswerWords(body) = words
    BY <1>2 DEF AnswerWords, IsText, WellFormedAnswer
  <2> QED
    BY <1>2, <2>1, <2>2, <2>3
<1> QED
  BY <1>1, <1>2 DEF WellFormedAnswer

LEMMA AnswerToAnthropic ==
    ASSUME AbsentApart, NEW body, WellFormedAnswer("openai", body), body.kind # "bytes",
           NEW new, new = TransformResponse(body, "anthropic", "openai")
    PROVE  /\ new.style = "anthropic" /\ new.kind = body.kind
           /\ new.kind = "answer" => AnswerWords(new) = AnswerWords(body) /\ new.finish \in StopReason
           /\ new.kind = "error" => new.message = body.message /\ new.type \in {body.type, body.code}
<1>1. CASE body.kind = "error"
  BY <1>1 DEF TransformResponse, TransformOpenAIErrorToAnthropic, Error
<1>2. CASE body.kind = "answer"
  <2> DEFINE words == IF IsText(body.content) THEN body.content.text ELSE <<>>
  <2>1. /\ new.style = "anthropic" /\ new.kind = "answer"
        /\ new.content = Blocks(<<TextBlock(words)>>)
        /\ new.finish = extractFinishReason(body.finish)
    BY <1>2 DEF TransformResponse, OpenAIResponseToAnthropic, Answer
  <2>2. IsSequence(words) /\ AnswerWords(body) = words
    BY <1>2 DEF WellFormedAnswer, AnswerWords, IsText, IsSequence, ToSet
  <2> HIDE DEF words
  <2>3. AnswerWords(new) = words
    <3>1. AnswerWords(new) = extractAnthropicContent(new.content)
      BY <2>1 DEF AnswerWords, IsText, Blocks
    <3> QED
      BY <2>1, <2>2, <3>1, OneBlockSays
  <2>4. new.finish \in StopReason
    BY <1>2, <2>1 DEF extractFinishReason, StopReason, FinishReason, WellFormedAnswer, AbsentApart
  <2> QED
    BY <1>2, <2>1, <2>2, <2>3, <2>4
<1> QED
  BY <1>1, <1>2 DEF WellFormedAnswer

(* Whoever answers, the client reads the answer in the form of its endpoint, with *)
(* the words, or the kind and message of the error, that the upstream sent:       *)
(* TransformResponse and FormatError, also after a wrong guess of DetectAPIStyle. *)
THEOREM AnswersFit == ASSUME AbsentApart PROVE Spec => []AnsweredInOwnForm
<1>1. RequestInv /\ AnswerInv => AnsweredInOwnForm
  <2> SUFFICES ASSUME RequestInv, AnswerInv, answer # Absent, answer.kind # "bytes"
               PROVE  AnsweredInOwnForm
    BY DEF AnsweredInOwnForm
  <2>1. in.endpoint \in Style
    BY InputFacts DEF RequestInv
  <2>2. CASE reply = Absent /\ answer = FormatError(in.endpoint, "internal_error", "upstream error")
    BY <2>2 DEF AnsweredInOwnForm, FormatError, Error
  <2>3. CASE /\ rest # <<>> /\ reply \in Answers(provider)
             /\ answer = TransformResponse(reply, in.endpoint, provider)
    <3>1. provider \in Style /\ WellFormedAnswer(provider, reply)
      BY <2>3, ProviderType, AnswersAssumption DEF RequestInv
    <3>2. CASE in.endpoint = provider
      <4>1. answer = reply
        BY <2>3, <3>2 DEF TransformResponse
      <4> QED
        BY <2>1, <3>1, <3>2, <4>1 DEF AnsweredInOwnForm, WellFormedAnswer, Style
    <3>3. reply.kind # "bytes"
      BY <2>3 DEF TransformResponse
    <3>4. CASE in.endpoint = "openai" /\ provider = "anthropic"
      BY <2>3, <3>1, <3>3, <3>4, AnswerToOpenAI DEF AnsweredInOwnForm
    <3>5. CASE in.endpoint = "anthropic" /\ provider = "openai"
      BY <2>3, <3>1, <3>3, <3>5, AnswerToAnthropic DEF AnsweredInOwnForm
    <3> QED
      BY <2>1, <3>1, <3>2, <3>4, <3>5 DEF Style
  <2> QED
    BY <2>2, <2>3 DEF AnswerInv
<1> QED
  BY <1>1, RequestInductive, PTL

-----------------------------------------------------------------------------
(* Streams. *)

SaysIn(style, M, T) == \A line \in M : Said(style, line) \in Seq(T)

(* Words are said line by line. *)
LEMMA WordsConcat ==
    ASSUME NEW style, NEW M, NEW T, SaysIn(style, M, T), NEW s \in Seq(M), NEW t \in Seq(M)
    PROVE  /\ Words(style, s \o t) = Words(style, s) \o Words(style, t)
           /\ Words(style, s) \in Seq(T)
           /\ Len(s) = 1 => Words(style, s) = Said(style, s[1])
<1> DEFINE g == [line \in M |-> Said(style, line)]
           X == Seq(T)
<1>1. MapsInto(g, M, X)
  BY DEF MapsInto, SaysIn
<1>2. \A line \in M : g[line] = Said(style, line)
  OBVIOUS
<1> HIDE DEF g
<1>3. ASSUME NEW u \in Seq(M)
      PROVE  Mapped(g, u) \in Seq(X) /\ Words(style, u) = FlattenSeq(Mapped(g, u))
  <2>1. Mapped(g, u) \in Seq(X)
    <3> HIDE DEF X
    <3> QED
      BY <1>1, MappedShape
  <2>2. \A i \in DOMAIN u : u[i] \in M
    OBVIOUS
  <2>3. Mapped(g, u) = [i \in DOMAIN u |-> Said(style, u[i])]
    BY <1>2, <2>2 DEF Mapped
  <2> QED
    BY <2>1, <2>3 DEF Words
<1>4. s \o t \in Seq(M)
  OBVIOUS
<1>5. Mapped(g, s \o t) = Mapped(g, s) \o Mapped(g, t)
  <2> HIDE DEF X
  <2> QED
    BY <1>1, MappedConcat
<1>6. FlattenSeq(Mapped(g, s) \o Mapped(g, t)) = FlattenSeq(Mapped(g, s)) \o FlattenSeq(Mapped(g, t))
  BY <1>3, FlattenConcat
<1>7. FlattenSeq(Mapped(g, s)) \in Seq(T)
  BY <1>3, FlattenShape
<1>8. ASSUME Len(s) = 1
      PROVE  Words(style, s) = Said(style, s[1])
  <2>1. s[1] \in M /\ DOMAIN s = 1..1
    BY <1>8
  <2>2. Mapped(g, s) = <<g[s[1]]>>
    BY <2>1 DEF Mapped
  <2>3. g[s[1]] \in Seq(T) /\ g[s[1]] = Said(style, s[1])
    BY <1>2, <2>1 DEF SaysIn
  <2> QED
    BY <1>3, <2>2, <2>3, FlattenFew
<1>9. Words(style, s \o t) = FlattenSeq(Mapped(g, s \o t))
  BY <1>3, <1>4
<1>10. Words(style, s) = FlattenSeq(Mapped(g, s)) /\ Words(style, t) = FlattenSeq(Mapped(g, t))
  BY <1>3
<1> QED
  BY <1>5, <1>6, <1>7, <1>8, <1>9, <1>10

(* Lines without words say nothing. *)
LEMMA WordsOfNothing ==
    ASSUME NEW style, NEW M, NEW s \in Seq(M), \A i \in 1..Len(s) : Said(style, s[i]) = <<>>
    PROVE  Words(style, s) = <<>>
<1> DEFINE p == [i \in DOMAIN s |-> Said(style, s[i])]
<1>1. DOMAIN s = 1..Len(s) /\ Len(s) \in Nat /\ \A i \in 1..Len(s) : p[i] = <<>> /\ p[i] \in Seq({})
  <2>1. DOMAIN s = 1..Len(s) /\ Len(s) \in Nat /\ <<>> \in Seq({})
    OBVIOUS
  <2>2. \A i \in 1..Len(s) : p[i] = Said(style, s[i])
    BY <2>1
  <2> HIDE DEF p
  <2>3. \A i \in 1..Len(s) : p[i] = <<>>
    BY <2>2
  <2> QED
    BY <2>1, <2>3
<1>2. DOMAIN p = 1..Len(s) /\ p = [i \in 1..Len(s) |-> p[i]]
  BY <1>1
<1> HIDE DEF p
<1>3. p \in Seq(Seq({})) /\ Len(p) = Len(s)
  <2> DEFINE X == Seq({})
  <2>1. \A i \in 1..Len(s) : p[i] \in X
    BY <1>1
  <2> HIDE DEF X
  <2>2. p \in Seq(X) /\ Len(p) = Len(s)
    BY <1>1, <1>2, <2>1, FunctionIsSeq
  <2> QED
    BY <2>2 DEF X
<1>4. FlattenSeq(p) = <<>>
  BY <1>1, <1>3, FlattenNothing
<1> QED
  BY <1>4 DEF Words, p

(* What a stream may say, and what may reach the client of it. *)
WordSet(lines) == UNION {ToSet(line.words) : line \in {l \in ToSet(lines) : l.line = "data"}}

Lines(lines, endpoint, from) ==
    ToSet(lines) \cup {Done} \cup UNION {ToSet(Relayed(l, endpoint, from)) : l \in ToSet(lines)}

(* The lines after which a stream has no words any more. *)
Ending(line) == Finished(line) \/ (line.line = "data" /\ line.type = "message_delta")

LEMMA SingleLine ==
    ASSUME NEW x, NEW s, s = <<x>>
    PROVE  ToSet(s) = {x} /\ s \in Seq(ToSet(s)) /\ Len(s) = 1 /\ s[1] = x
<1>1. DOMAIN <<x>> = {1} /\ <<x>>[1] = x
  OBVIOUS
<1>2. ToSet(s) = {x}
  BY <1>1 DEF ToSet
<1> QED
  BY <1>2

LEMMA LinePair ==
    ASSUME NEW x, NEW y, NEW s, s = <<x, y>>
    PROVE  ToSet(s) = {x, y} /\ s \in Seq(ToSet(s))
<1>1. DOMAIN <<x, y>> = {1, 2} /\ <<x, y>>[1] = x /\ <<x, y>>[2] = y
  OBVIOUS
<1>2. ToSet(s) = {x, y}
  BY <1>1 DEF ToSet
<1> QED
  BY <1>2

LEMMA DoneShape == Done.line = "data" /\ Done.type = "[DONE]" /\ Done.words = <<>> /\ Done.finish = Absent
  BY DEF Done, DataLine

LEMMA EventShape ==
    ASSUME NEW name
    PROVE  EventLine(name).line = "event" /\ ~Finished(EventLine(name))
<1>1. EventLine(name).line = "event"
  BY DEF EventLine
<1> QED
  BY <1>1, DoneShape DEF Finished

LEMMA DataShape ==
    ASSUME NEW type, NEW words, NEW finish, NEW line,
           line = DataLine(type, words, finish) \/ line = [DataLine(type, words, finish) EXCEPT !.quoted = FALSE]
    PROVE  /\ line.line = "data" /\ line.type = type /\ line.words = words /\ line.finish = finish
           /\ line = DataLine(type, words, finish) => line.quoted
           /\ type # "[DONE]" /\ Finished(line) => finish # Absent
<1>1. /\ line.line = "data" /\ line.type = type /\ line.words = words /\ line.finish = finish
      /\ line = DataLine(type, words, finish) => line.quoted
  BY DEF DataLine
<1> QED
  BY <1>1, DoneShape DEF Finished

(* The five ways in which a line is passed on. *)
LEMMA RelayedShape ==
    ASSUME NEW line, line.line \in {"event", "data"}, NEW endpoint \in Style, NEW from \in Style,
           NEW new, new = Relayed(line, endpoint, from)
    PROVE  \/ /\ new = <<line>>
              /\ ~(endpoint = "openai" /\ from = "anthropic" /\ line.line = "data"
                   /\ line.type = "content_block_delta" /\ line.words # <<>>)
           \/ /\ endpoint = "openai" /\ from = "anthropic" /\ line.line = "data"
              /\ \/ /\ line.type = "content_block_delta"
                    /\ new = <<DataLine("chunk", line.words, Absent)>>
                 \/ /\ line.type = "message_delta"
                    /\ new = <<DataLine("chunk", <<>>, "stop")>>
           \/ /\ endpoint = "anthropic" /\ from = "openai" /\ line.line = "data" /\ line.type = "chunk"
              /\ \/ new = <<EventLine("content_block_delta"),
                            [DataLine("content_block_delta", line.words, Absent) EXCEPT !.quoted = FALSE]>>
                 \/ /\ line.words = <<>> /\ line.finish = "stop"
                    /\ new = <<EventLine("message_delta"), DataLine("message_delta", <<>>, "end_turn")>>
<1>1. CASE line.line = "event" \/ endpoint = from
  BY <1>1 DEF Relayed
<1>2. CASE line.line = "data" /\ endpoint = "openai" /\ from = "anthropic"
  <2>1. new = <<convertAnthropicToOpenAIStream(line)>>
    BY <1>2 DEF Relayed
  <2> QED
    BY <1>2, <2>1 DEF convertAnthropicToOpenAIStream
<1>3. CASE line.line = "data" /\ endpoint = "anthropic" /\ from = "openai"
  <2>1. new = convertOpenAIStream(line)
    BY <1>3 DEF Relayed
  <2> QED
    BY <1>3, <2>1 DEF convertOpenAIStream
<1> QED
  BY <1>1, <1>2, <1>3 DEF Style

LEMMA LineSays ==
    ASSUME NEW from \in Style, NEW lines, WellFormedStream(from, lines), NEW line \in ToSet(lines)
    PROVE  /\ line.line \in {"event", "data"}
           /\ line.line = "data" => line.words \in Seq(WordSet(lines))
           /\ \A style : Said(style, line) \in Seq(WordSet(lines))
<1>1. \/ line.line = "event"
      \/ line.line = "data" /\ line.words \in Seq(ToSet(line.words))
  BY DEF WellFormedStream, IsSequence
<1>2. line.line = "data" => ToSet(line.words) \subseteq WordSet(lines)
  BY DEF WordSet
<1> DEFINE T == WordSet(lines)
           W == ToSet(line.words)
<1>3. line.line = "data" => line.words \in Seq(T)
  <2> SUFFICES ASSUME line.line = "data"
               PROVE  line.words \in Seq(T)
    OBVIOUS
  <2>1. line.words \in Seq(W) /\ W \subseteq T
    BY <1>1, <1>2
  <2> HIDE DEF W, T
  <2> QED
    BY <2>1
<1>4. <<>> \in Seq(T)
  OBVIOUS
<1> QED
  BY <1>1, <1>3, <1>4 DEF Said

(* What a client is sent for a line says nothing new, ends the stream only with  *)
(* it, and for a client that can read it says the same.                          *)
LEMMA RelayedSays ==
    ASSUME AbsentApart, NEW endpoint \in Style, NEW from \in Style,
           NEW lines, WellFormedStream(from, lines), NEW line \in ToSet(lines),
           NEW new, new = Relayed(line, endpoint, from)
    PROVE  /\ new \in Seq(ToSet(new))
           /\ \A l \in ToSet(new) : /\ Finished(l) => Ending(line)
                                    /\ \A style : Said(style, l) \in Seq(WordSet(lines))
           /\ endpoint \in {"openai", from} =>
                  Len(new) = 1 /\ Said(endpoint, new[1]) = Said(from, line)
<1> DEFINE T == WordSet(lines)
<1>1. /\ line.line \in {"event", "data"}
      /\ line.line = "data" => line.words \in Seq(T)
      /\ \A style : Said(style, line) \in Seq(T)
  BY LineSays
<1>2. <<>> \in Seq(T)
  OBVIOUS
<1>3. line.line = "data" => line.quoted /\ (from = "anthropic" => line.type # "chunk")
  BY <1>1 DEF WellFormedStream
<1> HIDE DEF T
<1>4. CASE /\ new = <<line>>
           /\ ~(endpoint = "openai" /\ from = "anthropic" /\ line.line = "data"
                /\ line.type = "content_block_delta" /\ line.words # <<>>)
  <2>1. ToSet(new) = {line} /\ new \in Seq(ToSet(new)) /\ Len(new) = 1 /\ new[1] = line
    BY <1>4, SingleLine
  <2>2. Finished(line) => Ending(line)
    BY DEF Ending
  <2>3. CASE endpoint = from
    BY <1>1, <1>4, <2>1, <2>2, <2>3 DEF T
  <2>4. CASE endpoint = "openai" /\ from = "anthropic"
    <3>1. Said("openai", line) = Said("anthropic", line)
      BY <1>1, <1>3, <1>4, <2>4 DEF Said
    <3> QED
      BY <1>1, <1>4, <2>1, <2>2, <2>4, <3>1 DEF T
  <2>5. CASE endpoint \notin {"openai", from}
    BY <1>1, <1>4, <2>1, <2>2, <2>5 DEF T
  <2> QED
    BY <2>3, <2>4, <2>5 DEF Style
<1>5. CASE /\ endpoint = "openai" /\ from = "anthropic" /\ line.line = "data"
           /\ line.type = "content_block_delta"
           /\ new = <<DataLine("chunk", line.words, Absent)>>
  <2> DEFINE l == DataLine("chunk", line.words, Absent)
  <2>1. ToSet(new) = {l} /\ new \in Seq(ToSet(new)) /\ Len(new) = 1 /\ new[1] = l
    <3>1. new = <<l>>
      BY <1>5
    <3> HIDE DEF l
    <3> QED
      BY <3>1, SingleLine
  <2>2. ~Finished(l) /\ l.line = "data" /\ l.quoted /\ l.type = "chunk" /\ l.words = line.words
    BY DataShape
  <2> HIDE DEF l
  <2>3. Said("openai", l) = line.words /\ Said("anthropic", line) = line.words
    BY <1>3, <1>5, <2>2 DEF Said
  <2>4. \A style : Said(style, l) \in Seq(T)
    BY <1>1, <1>2, <1>5, <2>2 DEF Said
  <2> QED
    BY <1>5, <2>1, <2>2, <2>3, <2>4 DEF T
<1>6. CASE /\ endpoint = "openai" /\ from = "anthropic" /\ line.line = "data"
           /\ line.type = "message_delta"
           /\ new = <<DataLine("chunk", <<>>, "stop")>>
  <2> DEFINE l == DataLine("chunk", <<>>, "stop")
  <2>1. ToSet(new) = {l} /\ new \in Seq(ToSet(new)) /\ Len(new) = 1 /\ new[1] = l
    <3>1. new = <<l>>
      BY <1>6
    <3> HIDE DEF l
    <3> QED
      BY <3>1, SingleLine
  <2>2. l.words = <<>>
    BY DataShape
  <2> HIDE DEF l
  <2>3. (\A style : Said(style, l) = <<>>) /\ Said("anthropic", line) = <<>>
    BY <1>6, <2>2 DEF Said
  <2>4. Ending(line)
    BY <1>6 DEF Ending
  <2> QED
    BY <1>2, <1>6, <2>1, <2>3, <2>4 DEF T
<1>7. CASE /\ endpoint = "anthropic" /\ from = "openai" /\ line.line = "data" /\ line.type = "chunk"
           /\ new = <<EventLine("content_block_delta"),
                      [DataLine("content_block_delta", line.words, Absent) EXCEPT !.quoted = FALSE]>>
  <2> DEFINE a == EventLine("content_block_delta")
             b == [DataLine("content_block_delta", line.words, Absent) EXCEPT !.quoted = FALSE]
  <2>1. ToSet(new) = {a, b} /\ new \in Seq(ToSet(new))
    <3>1. new = <<a, b>>
      BY <1>7
    <3> HIDE DEF a, b
    <3> QED
      BY <3>1, LinePair
  <2>2. a.line = "event" /\ ~Finished(a) /\ ~Finished(b) /\ b.line = "data" /\ b.words = line.words
    BY EventShape, DataShape
  <2> HIDE DEF a, b
  <2>3. \A style : Said(style, a) \in Seq(T) /\ Said(style, b) \in Seq(T)
    BY <1>1, <1>2, <1>7, <2>2 DEF Said
  <2> QED
    BY <1>7, <2>1, <2>2, <2>3 DEF T
<1>8. CASE /\ endpoint = "anthropic" /\ from = "openai" /\ line.line = "data" /\ line.type = "chunk"
           /\ line.words = <<>> /\ line.finish = "stop"
           /\ new = <<EventLine("message_delta"), DataLine("message_delta", <<>>, "end_turn")>>
  <2> DEFINE a == EventLine("message_delta")
             b == DataLine("message_delta", <<>>, "end_turn")
  <2>1. ToSet(new) = {a, b} /\ new \in Seq(ToSet(new))
    <3>1. new = <<a, b>>
      BY <1>8
    <3> HIDE DEF a, b
    <3> QED
      BY <3>1, LinePair
  <2>2. a.line = "event" /\ b.words = <<>>
    BY EventShape, DataShape
  <2> HIDE DEF a, b
  <2>3. \A style : Said(style, a) \in Seq(T) /\ Said(style, b) \in Seq(T)
    BY <1>2, <2>2 DEF Said
  <2>4. Ending(line)
    <3>1. "stop" # Absent
      BY DEF AbsentApart
    <3> QED
      BY <1>8, <3>1 DEF Ending, Finished
  <2> QED
    BY <1>8, <2>1, <2>3, <2>4 DEF T
<1> QED
  BY <1>1, <1>4, <1>5, <1>6, <1>7, <1>8, RelayedShape

LEMMA LinesSay ==
    ASSUME AbsentApart, NEW endpoint \in Style, NEW from \in Style,
           NEW lines, WellFormedStream(from, lines)
    PROVE  /\ \A style : SaysIn(style, Lines(lines, endpoint, from), WordSet(lines))
           /\ lines \in Seq(Lines(lines, endpoint, from))
           /\ \A line \in ToSet(lines) :
                  Relayed(line, endpoint, from) \in Seq(Lines(lines, endpoint, from))
<1> DEFINE T == WordSet(lines)
           M == Lines(lines, endpoint, from)
<1>1. ASSUME NEW style, NEW l \in M
      PROVE  Said(style, l) \in Seq(T)
  <2>1. CASE l \in ToSet(lines)
    BY <2>1, LineSays
  <2>2. CASE l = Done
    <3>1. <<>> \in Seq(T)
      OBVIOUS
    <3> QED
      BY <2>2, <3>1, DoneShape DEF Said
  <2>3. CASE \E line \in ToSet(lines) : l \in ToSet(Relayed(line, endpoint, from))
    BY <2>3, RelayedSays
  <2> QED
    BY <2>1, <2>2, <2>3 DEF Lines
<1>2. lines \in Seq(M)
  <2> DEFINE L == ToSet(lines)
  <2>1. lines \in Seq(L) /\ L \subseteq M
    BY DEF WellFormedStream, IsSequence, Lines
  <2> HIDE DEF L, M
  <2> QED
    BY <2>1
<1>3. ASSUME NEW line \in ToSet(lines)
      PROVE  Relayed(line, endpoint, from) \in Seq(M)
  <2> DEFINE new == Relayed(line, endpoint, from)
             L == ToSet(new)
  <2>1. new \in Seq(L) /\ L \subseteq M
    BY RelayedSays DEF Lines
  <2> HIDE DEF L, M, new
  <2>2. new \in Seq(M)
    BY <2>1
  <2> QED
    BY <2>2 DEF new
<1> QED
  BY <1>1, <1>2, <1>3 DEF SaysIn

(* What the client has been sent follows from what has been read. *)
RelayInv ==
    LET M == Lines(stream, in.endpoint, provider)
    IN  /\ phase \in {"new", "waiting", "failed"} => stream = <<>> /\ next = 1 /\ received = <<>>
        /\ \/ stream = <<>> /\ next = 1 /\ received = <<>>
           \/ /\ rest # <<>> /\ stream \in Streams(provider)
              /\ next \in 1..Len(stream) + 1 /\ received \in Seq(M)
              /\ in.endpoint \in {"openai", provider} => Words(in.endpoint, received) = Told
              /\ \A i \in 1..Len(received) : Finished(received[i]) =>
                    \E k \in 1..next - 1 : Ending(stream[k])

(* Reading one line, whatever is sent for it. *)
LEMMA ReadOn ==
    ASSUME NEW style, NEW M, NEW T, SaysIn(style, M, T), NEW lines \in Seq(M), NEW n \in 1..Len(lines)
    PROVE  Words(style, SubSeq(lines, 1, n)) = Words(style, SubSeq(lines, 1, n - 1)) \o Said(style, lines[n])
<1> DEFINE a == SubSeq(lines, 1, n - 1)
           b == <<lines[n]>>
<1>1. a \in Seq(M) /\ b \in Seq(M) /\ Len(b) = 1 /\ b[1] = lines[n] /\ SubSeq(lines, 1, n) = a \o b
  OBVIOUS
<1> HIDE DEF a, b
<1>2. Words(style, a \o b) = Words(style, a) \o Words(style, b)
  BY <1>1, WordsConcat
<1>3. Words(style, b) = Said(style, b[1])
  BY <1>1, WordsConcat
<1> QED
  BY <1>1, <1>2, <1>3 DEF a

(* After a line that ends the stream there are no words. *)
LEMMA EndedIsWhole ==
    ASSUME NEW from \in Style, NEW lines, WellFormedStream(from, lines),
           NEW n \in 1..Len(lines) + 1, NEW k \in 1..n - 1, Ending(lines[k])
    PROVE  Words(from, SubSeq(lines, 1, n - 1)) = Words(from, lines)
<1> DEFINE M == ToSet(lines)
           T == WordSet(lines)
           a == SubSeq(lines, 1, n - 1)
           b == SubSeq(lines, n, Len(lines))
<1>1. lines \in Seq(M)
  BY DEF WellFormedStream, IsSequence
<1>2. SaysIn(from, M, T)
  BY LineSays DEF SaysIn
<1> HIDE DEF M, T
<1>3. /\ a \in Seq(M) /\ b \in Seq(M) /\ a \o b = lines /\ Len(b) = Len(lines) - n + 1
      /\ \A i \in 1..Len(b) : b[i] = lines[n + i - 1]
  <2>1. n \in Nat /\ Len(lines) \in Nat /\ n # 0 /\ n <= Len(lines) + 1
    BY <1>1
  <2>2. a \in Seq(M) /\ Len(a) = n - 1 /\ \A i \in 1..Len(a) : a[i] = lines[i]
    BY <1>1, <2>1, SubSeqProperties
  <2>3. /\ b \in Seq(M) /\ Len(b) = Len(lines) - n + 1
        /\ \A i \in 1..Len(b) : b[i] = lines[n + i - 1]
    BY <1>1, <2>1, SubSeqProperties
  <2> HIDE DEF a, b
  <2>4. /\ a \o b \in Seq(M) /\ Len(a \o b) = Len(lines)
        /\ \A i \in 1..Len(lines) : (a \o b)[i] = IF i <= n - 1 THEN a[i] ELSE b[i - (n - 1)]
    BY <2>1, <2>2, <2>3, ConcatProperties
  <2>5. ASSUME NEW i \in 1..Len(lines)
        PROVE  (a \o b)[i] = lines[i]
    <3>1. CASE i <= n - 1
      BY <2>1, <2>2, <2>4, <3>1
    <3>2. CASE ~(i <= n - 1)
      <4> DEFINE j == i - (n - 1)
      <4>1. j \in 1..Len(b) /\ n + j - 1 = i
        BY <2>1, <2>3, <3>2
      <4> HIDE DEF j
      <4>2. b[j] = lines[i]
        BY <2>3, <4>1
      <4> QED
        BY <2>4, <3>2, <4>2 DEF j
    <3> QED
      BY <3>1, <3>2
  <2>6. a \o b = lines
    BY <1>1, <2>4, <2>5, SeqEqual
  <2> QED
    BY <2>2, <2>3, <2>6
<1>4. ASSUME NEW i \in 1..Len(b)
      PROVE  Said(from, b[i]) = <<>>
  <2> DEFINE j == n + i - 1
  <2>1. j \in 1..Len(lines) /\ k \in 1..Len(lines) /\ k < j /\ DOMAIN lines = 1..Len(lines)
    <3>1. n \in Nat /\ Len(lines) \in Nat /\ DOMAIN lines = 1..Len(lines) /\ n <= Len(lines) + 1
      BY <1>1
    <3>2. i \in Nat /\ i >= 1 /\ i <= Len(lines) - n + 1
      BY <1>3, <3>1
    <3> QED
      BY <3>1, <3>2
  <2>2. lines[j].line = "data" => lines[j].words = <<>>
    <3> HIDE DEF j
    <3> QED
      BY <2>1 DEF WellFormedStream, Ending
  <2> QED
    BY <1>3, <2>2 DEF Said
<1> HIDE DEF a, b
<1>5. Words(from, b) = <<>>
  BY <1>3, <1>4, WordsOfNothing
<1>6. Words(from, a \o b) = Words(from, a) \o Words(from, b) /\ Words(from, a) \in Seq(T)
  BY <1>2, <1>3, WordsConcat
<1>7. Words(from, a) \o <<>> = Words(from, a)
  BY <1>6
<1> QED
  BY <1>3, <1>5, <1>6, <1>7 DEF a

(* What follows the lines that the client has, if it ends the stream, is     *)
(* justified by a line that has been read.                                   *)
LEMMA FinishedOnlyThen ==
    ASSUME NEW M, NEW old \in Seq(M), NEW new \in Seq(M), NEW n \in Nat \ {0}, NEW lines,
           \A i \in 1..Len(old) : Finished(old[i]) => \E k \in 1..n - 1 : Ending(lines[k]),
           \A i \in 1..Len(new) : Finished(new[i]) => Ending(lines[n])
    PROVE  \A i \in 1..Len(old \o new) : Finished((old \o new)[i]) =>
               \E k \in 1..n : Ending(lines[k])
<1> DEFINE all == old \o new
<1>1. /\ Len(all) = Len(old) + Len(new) /\ Len(old) \in Nat /\ Len(new) \in Nat
      /\ \A i \in 1..Len(all) : all[i] = IF i <= Len(old) THEN old[i] ELSE new[i - Len(old)]
  BY ConcatProperties
<1> HIDE DEF all
<1> SUFFICES ASSUME NEW i \in 1..Len(all), Finished(all[i])
             PROVE  \E k \in 1..n : Ending(lines[k])
  BY DEF all
<1>2. CASE i <= Len(old)
  <2>1. i \in 1..Len(old) /\ all[i] = old[i]
    BY <1>1, <1>2
  <2>2. PICK k \in 1..n - 1 : Ending(lines[k])
    BY <2>1
  <2>3. k \in 1..n
    OBVIOUS
  <2> QED
    BY <2>2, <2>3
<1>3. CASE ~(i <= Len(old))
  <2>1. i - Len(old) \in 1..Len(new) /\ all[i] = new[i - Len(old)]
    BY <1>1, <1>3
  <2>2. Ending(lines[n]) /\ n \in 1..n
    BY <2>1
  <2> QED
    BY <2>2
<1> QED
  BY <1>2, <1>3

SentFor(line, endpoint, from) ==
    IF line # Done THEN Relayed(line, endpoint, from)
    ELSE IF endpoint = "openai" THEN <<Done>> ELSE <<>>

LEMMA SentForLine ==
    ASSUME AbsentApart, NEW endpoint \in Style, NEW from \in Style,
           NEW lines, WellFormedStream(from, lines), NEW line \in ToSet(lines),
           NEW old \in Seq(Lines(lines, endpoint, from)),
           NEW new, new = SentFor(line, endpoint, from)
    PROVE  /\ new \in Seq(Lines(lines, endpoint, from))
           /\ old \o new \in Seq(Lines(lines, endpoint, from))
           /\ \A i \in 1..Len(new) : Finished(new[i]) => Ending(line)
           /\ endpoint \in {"openai", from} =>
                  Words(endpoint, old \o new) = Words(endpoint, old) \o Said(from, line)
<1> DEFINE M == Lines(lines, endpoint, from)
           T == WordSet(lines)
<1>1. SaysIn(endpoint, M, T) /\ line \in M
  BY LinesSay DEF Lines
<1>2. ASSUME NEW u \in Seq(M), Len(u) = 1
      PROVE  Words(endpoint, u) = Said(endpoint, u[1])
  <2> HIDE DEF M, T
  <2> QED
    BY <1>1, <1>2, WordsConcat
<1>3. /\ new \in Seq(M)
      /\ \A i \in 1..Len(new) : Finished(new[i]) => Ending(line)
      /\ endpoint \in {"openai", from} => Words(endpoint, new) = Said(from, line)
  <2>1. CASE line # Done
    <3>1. new \in Seq(M) /\ new = Relayed(line, endpoint, from)
      BY <2>1, LinesSay DEF SentFor
    <3>2. /\ \A l \in ToSet(new) : Finished(l) => Ending(line)
          /\ endpoint \in {"openai", from} => Len(new) = 1 /\ Said(endpoint, new[1]) = Said(from, line)
      <4>1. new = Relayed(line, endpoint, from)
        BY <3>1
      <4> QED
        BY <4>1, RelayedSays
    <3> HIDE DEF M, T
    <3>3. \A i \in 1..Len(new) : new[i] \in ToSet(new)
      BY <3>1 DEF ToSet
    <3> QED
      BY <1>2, <3>1, <3>2, <3>3
  <2>2. CASE line = Done
    <3>1. Said(from, line) = <<>> /\ Said(endpoint, line) = <<>> /\ Ending(line)
      BY <2>2, DoneShape DEF Said, Ending, Finished
    <3>2. CASE endpoint = "openai"
      <4>1. new = <<line>>
        BY <2>2, <3>2 DEF SentFor
      <4>2. new \in Seq(M) /\ Len(new) = 1 /\ new[1] = line
        <5>1. ToSet(new) = {line} /\ new \in Seq(ToSet(new)) /\ Len(new) = 1 /\ new[1] = line
          BY <4>1, SingleLine
        <5> DEFINE L == ToSet(new)
        <5>2. L \subseteq M /\ new \in Seq(L)
          BY <1>1, <5>1
        <5> HIDE DEF L, M
        <5>3. new \in Seq(M)
          BY <5>2
        <5> QED
          BY <5>1, <5>3
      <4> QED
        BY <1>2, <3>1, <4>2
    <3>3. CASE endpoint # "openai"
      <4>1. new = <<>>
        BY <2>2, <3>3 DEF SentFor
      <4>2. new \in Seq(M) /\ Len(new) = 0 /\ Words(endpoint, new) = <<>>
        BY <4>1 DEF Words, FlattenSeq
      <4> QED
        BY <3>1, <4>2
    <3> QED
      BY <3>2, <3>3
  <2> QED
    BY <2>1, <2>2
<1> HIDE DEF M, T
<1>4. old \in Seq(M)
  BY DEF M
<1>5. Words(endpoint, old \o new) = Words(endpoint, old) \o Words(endpoint, new)
  BY <1>1, <1>3, <1>4, WordsConcat
<1>6. old \o new \in Seq(M)
  BY <1>3, <1>4
<1> QED
  BY <1>3, <1>5, <1>6 DEF M

LEMMA RelayStep ==
    ASSUME AbsentApart, RequestInv, RelayInv, RelayLine
    PROVE  RelayInv'
<1> DEFINE endpoint == in.endpoint
           from == provider
           line == stream[next]
           new == SentFor(line, endpoint, from)
           M == Lines(stream, endpoint, from)
           T == WordSet(stream)
<1>1. /\ endpoint \in Style /\ from \in Style /\ rest # <<>>
      /\ WellFormedStream(from, stream) /\ stream \in Streams(from)
      /\ next \in 1..Len(stream) /\ received \in Seq(M)
  <2>1. phase = "streaming" /\ next <= Len(stream)
    BY DEF RelayLine
  <2>2. rest # <<>> /\ endpoint \in Style /\ from \in Style
    BY <2>1, InputFacts, ProviderType DEF RequestInv
  <2>3. stream # <<>>
    BY <2>1 DEF RelayInv
  <2>4. /\ stream \in Streams(from) /\ next \in 1..Len(stream) + 1 /\ received \in Seq(M)
    BY <2>3 DEF RelayInv
  <2>5. WellFormedStream(from, stream)
    BY <2>2, <2>4, StreamsAssumption
  <2>6. next \in 1..Len(stream)
    <3>1. Len(stream) \in Nat
      BY <2>5 DEF WellFormedStream, IsSequence
    <3> QED
      BY <2>1, <2>4, <3>1
  <2> QED
    BY <2>2, <2>4, <2>5, <2>6
<1>2. /\ \A style : SaysIn(style, M, T)
      /\ stream \in Seq(M) /\ line \in ToSet(stream) /\ line \in M
  <2>1. stream \in Seq(ToSet(stream))
    BY <1>1 DEF WellFormedStream, IsSequence
  <2>2. line \in ToSet(stream)
    BY <1>1, <2>1
  <2> QED
    BY <1>1, <2>2, LinesSay DEF Lines
<1>3. received' = received \o new
  <2>1. CASE line # Done
    BY <2>1 DEF RelayLine, SentFor
  <2>2. CASE line = Done /\ endpoint = "openai"
    BY <1>1, <2>2, AppendIsConcat DEF RelayLine, SentFor
  <2>3. CASE line = Done /\ endpoint # "openai"
    <3>1. received \o <<>> = received
      BY <1>1
    <3> QED
      BY <2>3, <3>1 DEF RelayLine, SentFor
  <2> QED
    BY <2>1, <2>2, <2>3
<1>4. /\ new \in Seq(M) /\ received \o new \in Seq(M)
      /\ \A i \in 1..Len(new) : Finished(new[i]) => Ending(line)
      /\ endpoint \in {"openai", from} =>
            Words(endpoint, received \o new) = Words(endpoint, received) \o Said(from, line)
  <2>1. /\ endpoint \in Style /\ from \in Style /\ WellFormedStream(from, stream)
        /\ line \in ToSet(stream) /\ received \in Seq(Lines(stream, endpoint, from))
    BY <1>1, <1>2
  <2> HIDE DEF endpoint, from, line
  <2> QED
    BY <2>1, SentForLine
<1> HIDE DEF new, M, T, endpoint, from, line
<1>5. received' \in Seq(M)
  BY <1>3, <1>4
<1>6. Words(from, SubSeq(stream, 1, next)) = Words(from, SubSeq(stream, 1, next - 1)) \o Said(from, line)
  BY <1>1, <1>2, ReadOn DEF line
<1>7. endpoint \in {"openai", from} => Words(endpoint, received) = Words(from, SubSeq(stream, 1, next - 1))
  <2>1. stream # <<>>
    BY <1>1
  <2> QED
    BY <2>1 DEF RelayInv, Told, endpoint, from
<1>8. \A i \in 1..Len(received \o new) : Finished((received \o new)[i]) =>
          \E k \in 1..next : Ending(stream[k])
  <2>1. \A i \in 1..Len(received) : Finished(received[i]) => \E k \in 1..next - 1 : Ending(stream[k])
    <3>1. stream # <<>>
      BY <1>1
    <3> QED
      BY <3>1 DEF RelayInv
  <2>2. next \in Nat \ {0}
    BY <1>1
  <2> QED
    BY <1>1, <1>4, <2>1, <2>2, FinishedOnlyThen DEF line
<1>9. /\ next' = next + 1 /\ phase' \in {"streaming", "done"}
      /\ stream' = stream /\ in' = in /\ rest' = rest
  BY DEF RelayLine
<1>10. /\ next' \in 1..Len(stream) + 1 /\ next' - 1 = next
  BY <1>1, <1>9
<1>11. /\ endpoint' = endpoint /\ from' = from /\ M' = M
  BY <1>9 DEF endpoint, from, M, provider
<1>12. endpoint \in {"openai", from} => Words(endpoint, received') = Words(from, SubSeq(stream, 1, next' - 1))
  BY <1>3, <1>4, <1>6, <1>7, <1>10
<1>13. \A i \in 1..Len(received') : Finished(received'[i]) =>
          \E k \in 1..next' - 1 : Ending(stream[k])
  BY <1>3, <1>8, <1>10
<1> QED
  BY <1>1, <1>5, <1>9, <1>10, <1>11, <1>12, <1>13 DEF RelayInv, Told, endpoint, from, M

LEMMA RelayInductive == ASSUME AbsentApart PROVE Spec => [](RequestInv /\ RelayInv)
<1>1. Init => RelayInv
  BY DEF Init, RelayInv
<1>2. RequestInv /\ RelayInv /\ [Next]_exchangeVars => RelayInv'
  <2> SUFFICES ASSUME RequestInv, RelayInv, [Next]_exchangeVars
               PROVE  RelayInv'
    OBVIOUS
  <2>1. CASE Recovered \/ Convert \/ Unavailable \/ Answered \/ StreamRefused \/ EndStream
    BY <2>1 DEF RelayInv, Recovered, Convert, Unavailable, Answered, StreamRefused, EndStream,
                Told, provider
  <2>2. CASE Fails
    BY <2>2 DEF RelayInv, Fails
  <2>3. CASE StartStream
    <3>1. stream = <<>> /\ next = 1 /\ received = <<>> /\ rest # <<>> /\ provider \in Style
      BY <2>3, ProviderType DEF RelayInv, RequestInv, StartStream
    <3>2. stream' \in Streams(provider) /\ rest' = rest /\ in' = in /\ next' = 1 /\ received' = <<>>
          /\ phase' = "streaming"
      BY <2>3, <3>1 DEF StartStream
    <3>3. Len(stream') \in Nat
      BY <3>1, <3>2, StreamsAssumption DEF WellFormedStream, IsSequence
    <3>4. SubSeq(stream', 1, 1 - 1) = <<>>
      BY <3>3
    <3>5. \A style : Words(style, <<>>) = <<>>
      BY DEF Words, FlattenSeq
    <3>6. Told' = <<>> /\ provider' = provider
      BY <3>2, <3>4, <3>5 DEF Told, provider
    <3>7. next' \in 1..Len(stream') + 1 /\ Words(in'.endpoint, received') = <<>> /\ Len(received') = 0
      BY <3>2, <3>3, <3>5
    <3>8. \A M : received' \in Seq(M)
      BY <3>2
    <3>9. stream' \in Streams(provider') /\ ~\E i \in 1..Len(received') : TRUE
      BY <3>2, <3>6, <3>7
    <3> QED
      BY <3>1, <3>2, <3>6, <3>7, <3>8, <3>9, Zenon DEF RelayInv
  <2>4. CASE RelayLine
    BY <2>4, RelayStep
  <2>5. CASE Terminated \/ UNCHANGED exchangeVars
    BY <2>5 DEF RelayInv, Terminated, exchangeVars, Told, provider
  <2> QED
    BY <2>1, <2>2, <2>3, <2>4, <2>5 DEF Next
<1> QED
  BY <1>1, <1>2, RequestInductive, PTL DEF Spec

(* A client that can read its stream is told the words of the upstream, each   *)
(* once and in order, and no stream looks finished to its client before its     *)
(* last word: the relay loop over the lines of the upstream, and [DONE].        *)
THEOREM StreamsArrive == ASSUME AbsentApart PROVE Spec => []StreamKept
<1>1. RequestInv /\ RelayInv => StreamKept
  <2> SUFFICES ASSUME RequestInv, RelayInv, stream # <<>>
               PROVE  /\ in.endpoint \in {"openai", provider} => Words(in.endpoint, received) = Told
                      /\ (\E i \in DOMAIN received : Finished(received[i])) => Told = Words(provider, stream)
    BY DEF StreamKept
  <2>1. /\ rest # <<>> /\ stream \in Streams(provider) /\ next \in 1..Len(stream) + 1
        /\ in.endpoint \in {"openai", provider} => Words(in.endpoint, received) = Told
        /\ \A i \in 1..Len(received) : Finished(received[i]) => \E k \in 1..next - 1 : Ending(stream[k])
        /\ DOMAIN received = 1..Len(received)
    BY DEF RelayInv
  <2>2. provider \in Style /\ WellFormedStream(provider, stream)
    BY <2>1, ProviderType, StreamsAssumption DEF RequestInv
  <2>3. ASSUME \E i \in DOMAIN received : Finished(received[i])
        PROVE  Told = Words(provider, stream)
    <3>1. PICK k \in 1..next - 1 : Ending(stream[k])
      BY <2>1, <2>3
    <3> QED
      BY <2>1, <2>2, <3>1, EndedIsWhole DEF Told
  <2> QED
    BY <2>1, <2>3
<1> QED
  BY <1>1, RelayInductive, PTL

(* The exchange keeps its types; a candidate that is waited for has been sent a *)
(* request.                                                                      *)
THEOREM ExchangeTypes == ASSUME AbsentApart PROVE Spec => []TypeOK
<1>1. RequestInv /\ RelayInv => TypeOK
  <2> SUFFICES ASSUME RequestInv, RelayInv
               PROVE  TypeOK
    OBVIOUS
  <2>1. next \in 1..Len(stream) + 1
    BY DEF RelayInv
  <2>2. ASSUME phase \in {"waiting", "streaming"}
        PROVE  sent # Absent
    <3>1. in.body # Absent
      BY InputFacts DEF RequestInv, WellFormedRequest
    <3>2. clientStyle \in Style /\ provider \in Style
      BY <2>2, InputFacts, ProviderType DEF RequestInv, clientStyle, DetectAPIStyle, Style
    <3>3. sent = TransformRequest(in.body, clientStyle, provider)
      BY <2>2 DEF RequestInv
    <3> QED
      BY <3>1, <3>2, <3>3, SentShape
  <2> QED
    BY <2>1, <2>2 DEF RequestInv, TypeOK
<1> QED
  BY <1>1, RelayInductive, PTL

-----------------------------------------------------------------------------
(* What is left of a sequence. *)

(* Found is what its recursion says. *)
LEMMA FoundShape ==
    ASSUME NEW s, NEW t, Len(s) \in Nat, Len(t) \in Nat
    PROVE  /\ Found(s, t) \in [0..Len(t) -> 0..Len(s)] /\ Found(s, t)[0] = 0
           /\ \A j \in 1..Len(t) : Found(s, t)[j] =
                 IF Found(s, t)[j - 1] < Len(s) /\ s[Found(s, t)[j - 1] + 1] = t[j]
                 THEN Found(s, t)[j - 1] + 1 ELSE Found(s, t)[j - 1]
<1> DEFINE N == Len(t)
           X == 0..Len(s)
           step == [n \in 1..N |-> [x \in X |-> IF x < Len(s) /\ s[x + 1] = t[n] THEN x + 1 ELSE x]]
<1>1. ASSUME NEW n \in 1..N, NEW x \in X
      PROVE  /\ step[n][x] = IF x < Len(s) /\ s[x + 1] = t[n] THEN x + 1 ELSE x
             /\ step[n][x] \in X
  OBVIOUS
<1> HIDE DEF step
<1>2. PICK f \in [0..N -> X] : f[0] = 0 /\ \A n \in 1..N : f[n] = step[n][f[n - 1]]
  <2>1. 0 \in X /\ StaysIn(X, step, N)
    BY <1>1 DEF StaysIn
  <2> HIDE DEF X, N
  <2>2. \E f \in [0..N -> X] : Follows(f, 0, step, N)
    BY <2>1, RecursionExists DEF N
  <2> QED
    BY <2>2 DEF Follows
<1> DEFINE ahead(h, j) == IF h[j - 1] < Len(s) /\ s[h[j - 1] + 1] = t[j] THEN h[j - 1] + 1 ELSE h[j - 1]
           Is(h) == h = [j \in 0..Len(t) |->
                            IF j = 0 THEN 0
                            ELSE IF h[j - 1] < Len(s) /\ s[h[j - 1] + 1] = t[j] THEN h[j - 1] + 1
                            ELSE h[j - 1]]
<1>3. \A j \in 1..N : f[j - 1] \in X
  <2>1. \A j \in 1..N : j - 1 \in 0..N
    OBVIOUS
  <2> QED
    BY <2>1
<1>4. \A j \in 1..N : f[j] = ahead(f, j)
  BY <1>1, <1>2, <1>3
<1>5. Is(f)
  <2> DEFINE h == [j \in 0..N |-> IF j = 0 THEN 0 ELSE ahead(f, j)]
  <2>1. \A j \in 0..N : f[j] = h[j]
    <3>1. \A j \in 0..N : j # 0 => j \in 1..N
      OBVIOUS
    <3> HIDE DEF ahead
    <3> QED
      BY <1>2, <1>4, <3>1
  <2>2. f = [j \in 0..N |-> f[j]] /\ h = [j \in 0..N |-> h[j]]
    OBVIOUS
  <2> HIDE DEF h
  <2>3. f = h
    BY <2>1, <2>2
  <2> QED
    BY <2>3 DEF h
<1>6. Found(s, t) = CHOOSE h : Is(h)
  BY DEF Found
<1>7. Is(Found(s, t))
  BY <1>5, <1>6, Zenon
<1> DEFINE F == Found(s, t)
           k == [j \in 0..N |-> IF j = 0 THEN 0 ELSE ahead(F, j)]
<1>8. F = k
  BY <1>7
<1>9. \A j \in 0..N : k[j] = IF j = 0 THEN 0 ELSE ahead(F, j)
  OBVIOUS
<1>10. DOMAIN k = 0..N /\ k = [j \in 0..N |-> k[j]]
  OBVIOUS
<1> HIDE DEF k, F
<1>11. F[0] = 0 /\ \A j \in 1..N : F[j] = ahead(F, j)
  <2>1. 0 \in 0..N /\ \A j \in 1..N : j \in 0..N /\ j # 0
    OBVIOUS
  <2> HIDE DEF ahead
  <2> QED
    BY <1>8, <1>9, <2>1
<1>12. \A j \in 0..N : F[j] \in X
  <2> DEFINE Good == {j \in 0..N : F[j] \in X}
  <2>1. 0 \in Good
    BY <1>11
  <2>2. ASSUME NEW j \in 0..N, j # N, j \in Good
        PROVE  j + 1 \in Good
    <3> DEFINE i == j + 1
    <3>1. i \in 1..N /\ i \in 0..N /\ i - 1 = j
      BY <2>2
    <3> HIDE DEF i
    <3>2. F[i] \in X
      BY <1>11, <2>2, <3>1
    <3> QED
      BY <3>1, <3>2 DEF i
  <2>3. \A j \in 0..N : j \in Good
    <3> HIDE DEF Good
    <3> QED
      BY <2>1, <2>2, InductionUpTo
  <2> QED
    BY <2>3
<1>13. F \in [0..N -> X]
  BY <1>8, <1>10, <1>12
<1> QED
  BY <1>11, <1>13 DEF F

(* The search finds at least what it would find of a part in a part, when it has *)
(* come so far at the beginning of the part.                                     *)
LEMMA Ahead ==
    ASSUME NEW s, NEW t, NEW u, NEW v, NEW o \in Nat, NEW p \in Nat,
           Len(s) \in Nat, Len(t) \in Nat, Len(u) \in Nat, Len(v) \in Nat,
           o + Len(u) <= Len(s), p + Len(v) <= Len(t),
           \A k \in 1..Len(u) : s[o + k] = u[k], \A k \in 1..Len(v) : t[p + k] = v[k],
           Found(s, t)[p] >= o
    PROVE  Found(s, t)[p + Len(v)] >= o + Found(u, v)[Len(v)]
<1> DEFINE F == Found(s, t)
           G == Found(u, v)
           Good == {j \in 0..Len(v) : F[p + j] >= o + G[j]}
<1>1. /\ F \in [0..Len(t) -> 0..Len(s)]
      /\ \A j \in 1..Len(t) : F[j] = IF F[j - 1] < Len(s) /\ s[F[j - 1] + 1] = t[j]
                                     THEN F[j - 1] + 1 ELSE F[j - 1]
      /\ G \in [0..Len(v) -> 0..Len(u)] /\ G[0] = 0
      /\ \A j \in 1..Len(v) : G[j] = IF G[j - 1] < Len(u) /\ u[G[j - 1] + 1] = v[j]
                                     THEN G[j - 1] + 1 ELSE G[j - 1]
  BY FoundShape
<1>2. F[p] >= o
  OBVIOUS
<1> HIDE DEF F, G
<1>3. 0 \in Good
  BY <1>1, <1>2
<1>4. ASSUME NEW j \in 0..Len(v), j # Len(v), j \in Good
      PROVE  j + 1 \in Good
  <2> DEFINE i == j + 1
             n == p + i
  <2>1. /\ i \in 1..Len(v) /\ i \in 0..Len(v) /\ i - 1 = j
        /\ n \in 1..Len(t) /\ n - 1 = p + j /\ n - 1 \in 0..Len(t)
    BY <1>4
  <2> HIDE DEF i, n
  <2> DEFINE x == F[p + j]
             y == G[j]
  <2>2. x \in 0..Len(s) /\ y \in 0..Len(u) /\ x >= o + y
    BY <1>1, <1>4, <2>1
  <2>3. /\ F[n] = IF x < Len(s) /\ s[x + 1] = t[n] THEN x + 1 ELSE x
        /\ G[i] = IF y < Len(u) /\ u[y + 1] = v[i] THEN y + 1 ELSE y
    <3>1. F[n] = IF F[n - 1] < Len(s) /\ s[F[n - 1] + 1] = t[n] THEN F[n - 1] + 1 ELSE F[n - 1]
      BY <1>1, <2>1
    <3>2. G[i] = IF G[i - 1] < Len(u) /\ u[G[i - 1] + 1] = v[i] THEN G[i - 1] + 1 ELSE G[i - 1]
      BY <1>1, <2>1
    <3>3. F[n - 1] = x /\ G[i - 1] = y
      BY <2>1
    <3> HIDE DEF x, y
    <3> QED
      BY <3>1, <3>2, <3>3
  <2>4. t[n] = v[i]
    BY <2>1 DEF n
  <2> HIDE DEF x, y
  <2>5. F[n] >= o + G[i]
    <3>1. CASE x > o + y
      BY <2>2, <2>3, <3>1
    <3>2. CASE x = o + y /\ y < Len(u)
      <4>1. y + 1 \in 1..Len(u) /\ x < Len(s) /\ x + 1 = o + (y + 1)
        BY <2>2, <3>2
      <4>2. s[x + 1] = u[y + 1]
        BY <4>1
      <4> QED
        BY <2>2, <2>3, <2>4, <3>2, <4>1, <4>2
    <3>3. CASE x = o + y /\ ~(y < Len(u))
      BY <2>2, <2>3, <3>3
    <3> QED
      BY <2>2, <3>1, <3>2, <3>3
  <2> QED
    BY <2>1, <2>5 DEF i, n
<1>5. Len(v) \in Good
  <2>1. Len(v) \in 0..Len(v)
    OBVIOUS
  <2> HIDE DEF Good
  <2> QED
    BY <1>3, <1>4, <2>1, InductionUpTo
<1> QED
  BY <1>5 DEF F, G

LEMMA WithinConcat ==
    ASSUME NEW T, NEW s \in Seq(T), NEW t \in Seq(T), NEW u \in Seq(T), NEW v \in Seq(T),
           Within(s, t), Within(u, v)
    PROVE  Within(s \o u, t \o v)
<1> DEFINE a == s \o u
           b == t \o v
<1>1. /\ Len(a) = Len(s) + Len(u) /\ Len(b) = Len(t) + Len(v)
      /\ \A k \in 1..Len(s) : a[0 + k] = s[k]
      /\ \A k \in 1..Len(u) : a[Len(s) + k] = u[k]
      /\ \A k \in 1..Len(t) : b[0 + k] = t[k]
      /\ \A k \in 1..Len(v) : b[Len(t) + k] = v[k]
      /\ Len(s) \in Nat /\ Len(t) \in Nat /\ Len(u) \in Nat /\ Len(v) \in Nat
  OBVIOUS
<1> HIDE DEF a, b
<1>2. /\ Found(s, t)[Len(t)] = Len(s) /\ Found(u, v)[Len(v)] = Len(u)
  BY DEF Within
<1>3. /\ Found(a, b) \in [0..Len(b) -> 0..Len(a)] /\ Found(a, b)[0] = 0
  <2>1. Len(a) \in Nat /\ Len(b) \in Nat
    BY <1>1
  <2> QED
    BY <2>1, FoundShape
<1>4. Found(a, b)[0 + Len(t)] >= 0 + Found(s, t)[Len(t)]
  <2>1. 0 + Len(s) <= Len(a) /\ 0 + Len(t) <= Len(b) /\ Len(a) \in Nat /\ Len(b) \in Nat /\ 0 \in Nat
    BY <1>1
  <2>2. Found(a, b)[0] >= 0
    BY <1>3
  <2> QED
    BY <1>1, <2>1, <2>2, Ahead
<1>5. Found(a, b)[Len(t) + Len(v)] >= Len(s) + Found(u, v)[Len(v)]
  <2>1. Found(a, b)[Len(t)] >= Len(s)
    BY <1>1, <1>2, <1>4
  <2>2. Len(s) + Len(u) <= Len(a) /\ Len(t) + Len(v) <= Len(b) /\ Len(a) \in Nat /\ Len(b) \in Nat
    BY <1>1
  <2> QED
    BY <1>1, <2>1, <2>2, Ahead
<1>6. Found(a, b)[Len(b)] \in 0..Len(a)
  <2>1. Len(b) \in 0..Len(b)
    BY <1>1
  <2> QED
    BY <1>3, <2>1
<1>7. Found(a, b)[Len(b)] = Len(a)
  <2>1. Found(a, b)[Len(b)] >= Len(a)
    BY <1>1, <1>2, <1>5
  <2>2. Len(a) \in Nat
    BY <1>1
  <2> QED
    BY <1>6, <2>1, <2>2
<1> QED
  BY <1>7 DEF Within, a, b

LEMMA WithinItself == ASSUME NEW s, Len(s) \in Nat PROVE Within(s, s)
<1> DEFINE F == Found(s, s)
           Good == {j \in 0..Len(s) : F[j] = j}
<1>1. /\ F[0] = 0
      /\ \A j \in 1..Len(s) : F[j] = IF F[j - 1] < Len(s) /\ s[F[j - 1] + 1] = s[j]
                                     THEN F[j - 1] + 1 ELSE F[j - 1]
  BY FoundShape
<1> HIDE DEF F
<1>2. 0 \in Good
  BY <1>1
<1>3. ASSUME NEW j \in 0..Len(s), j # Len(s), j \in Good
      PROVE  j + 1 \in Good
  <2> DEFINE i == j + 1
  <2>1. i \in 1..Len(s) /\ i \in 0..Len(s) /\ i - 1 = j /\ j < Len(s) /\ F[j] = j /\ j + 1 = i
    BY <1>3
  <2> HIDE DEF i
  <2>2. F[i] = i
    BY <1>1, <2>1
  <2> QED
    BY <2>1, <2>2 DEF i
<1>4. Len(s) \in Good
  <2>1. Len(s) \in 0..Len(s)
    OBVIOUS
  <2> HIDE DEF Good
  <2> QED
    BY <1>2, <1>3, <2>1, InductionUpTo
<1> QED
  BY <1>4 DEF F, Within

LEMMA NothingWithin == ASSUME NEW t, Len(t) \in Nat PROVE Within(<<>>, t)
<1> DEFINE s == <<>>
<1>1. Len(s) = 0
  OBVIOUS
<1> HIDE DEF s
<1>2. Found(s, t) \in [0..Len(t) -> 0..Len(s)]
  BY <1>1, FoundShape
<1>3. Len(t) \in 0..Len(t)
  OBVIOUS
<1>4. Found(s, t)[Len(t)] \in 0..0
  BY <1>1, <1>2, <1>3
<1> QED
  BY <1>1, <1>4 DEF Within, s

(* Piece by piece. *)
LEMMA WithinPieces ==
    ASSUME NEW a, Pieces(a), NEW b, Pieces(b), Len(a) = Len(b),
           \A i \in 1..Len(a) : Within(a[i], b[i])
    PROVE  Within(FlattenSeq(a), FlattenSeq(b))
<1>1. PICK T : a \in Seq(Seq(T)) /\ b \in Seq(Seq(T)) /\ Len(a) \in Nat
  BY CommonType
<1>2. /\ \A n \in 0..Len(a) : FlatUpTo(a, n) \in Seq(T) /\ FlatUpTo(b, n) \in Seq(T)
      /\ \A n \in 1..Len(a) : /\ FlatUpTo(a, n) = FlatUpTo(a, n - 1) \o a[n]
                              /\ FlatUpTo(b, n) = FlatUpTo(b, n - 1) \o b[n]
      /\ FlattenSeq(a) = FlatUpTo(a, Len(a)) /\ FlatUpTo(a, 0) = <<>>
      /\ FlattenSeq(b) = FlatUpTo(b, Len(a)) /\ FlatUpTo(b, 0) = <<>>
  BY <1>1, FlattenShape
<1>3. \A n \in 1..Len(a) : a[n] \in Seq(T) /\ b[n] \in Seq(T)
  BY <1>1
<1> DEFINE Good == {n \in 0..Len(a) : Within(FlatUpTo(a, n), FlatUpTo(b, n))}
<1>4. 0 \in Good
  <2>1. Len(<<>>) \in Nat
    OBVIOUS
  <2>2. Within(<<>>, <<>>)
    BY <2>1, NothingWithin
  <2> QED
    BY <1>1, <1>2, <2>2
<1>5. ASSUME NEW n \in 0..Len(a), n # Len(a), n \in Good
      PROVE  n + 1 \in Good
  <2> DEFINE i == n + 1
             s == FlatUpTo(a, n)
             t == FlatUpTo(b, n)
             u == a[i]
             v == b[i]
  <2>1. i \in 0..Len(a) /\ i \in 1..Len(a) /\ i - 1 = n
    BY <1>1, <1>5
  <2> HIDE DEF i
  <2>2. /\ s \in Seq(T) /\ t \in Seq(T) /\ u \in Seq(T) /\ v \in Seq(T)
        /\ Within(s, t) /\ Within(u, v)
        /\ FlatUpTo(a, i) = s \o u /\ FlatUpTo(b, i) = t \o v
    BY <1>2, <1>3, <1>5, <2>1
  <2> HIDE DEF s, t, u, v
  <2>3. Within(s \o u, t \o v)
    BY <2>2, WithinConcat
  <2> QED
    BY <2>1, <2>2, <2>3 DEF i
<1> HIDE DEF Good
<1>6. Len(a) \in Good
  <2>1. Len(a) \in 0..Len(a)
    BY <1>1
  <2> QED
    BY <1>1, <1>4, <1>5, <2>1, InductionUpTo
<1> QED
  BY <1>2, <1>6 DEF Good

LEMMA FewInSequence ==
    ASSUME NEW x
    PROVE  /\ IsSequence(<<>>) /\ Len(<<>>) = 0 /\ DOMAIN <<>> = {}
           /\ IsSequence(<<x>>) /\ Len(<<x>>) = 1 /\ DOMAIN <<x>> = 1..1 /\ <<x>>[1] = x
           /\ ToSet(<<x>>) = {x}
<1>1. Len(<<>>) = 0 /\ DOMAIN <<>> = {} /\ Len(<<x>>) = 1 /\ DOMAIN <<x>> = 1..1 /\ <<x>>[1] = x
  OBVIOUS
<1>2. ToSet(<<x>>) = {x}
  BY <1>1 DEF ToSet
<1> QED
  BY <1>1, <1>2 DEF IsSequence

LEMMA SequenceFacts ==
    ASSUME NEW s, IsSequence(s)
    PROVE  DOMAIN s = 1..Len(s) /\ Len(s) \in Nat /\ s \o <<>> = s /\ <<>> \o s = s
<1> DEFINE S == ToSet(s)
<1>1. s \in Seq(S)
  BY DEF IsSequence
<1> HIDE DEF S
<1> QED
  BY <1>1

LEMMA ConcatIsSequence ==
    ASSUME NEW s, NEW t, IsSequence(s), IsSequence(t)
    PROVE  IsSequence(s \o t)
<1> DEFINE S == ToSet(s)
           T == ToSet(t)
           st == s \o t
           U == S \cup T
<1>1. s \in Seq(S) /\ t \in Seq(T)
  BY DEF IsSequence
<1>2. st \in Seq(U)
  <2> HIDE DEF S, T
  <2> QED
    BY <1>1
<1> HIDE DEF st, U
<1>3. st \in Seq(ToSet(st))
  BY <1>2, SeqOfItself
<1> QED
  BY <1>3 DEF IsSequence, st

(* Two that are within two are so together. *)
LEMMA WithinBoth ==
    ASSUME NEW s, NEW t, NEW u, NEW v,
           IsSequence(s), IsSequence(t), IsSequence(u), IsSequence(v), Within(s, t), Within(u, v)
    PROVE  Within(s \o u, t \o v)
<1> DEFINE A == ToSet(s)
           B == ToSet(t)
           C == ToSet(u)
           D == ToSet(v)
           T == A \cup B \cup C \cup D
<1>1. s \in Seq(A) /\ t \in Seq(B) /\ u \in Seq(C) /\ v \in Seq(D)
  BY DEF IsSequence
<1>2. s \in Seq(T) /\ t \in Seq(T) /\ u \in Seq(T) /\ v \in Seq(T)
  <2> HIDE DEF A, B, C, D
  <2>1. s \in Seq(T)
    BY <1>1
  <2>2. t \in Seq(T)
    BY <1>1
  <2>3. u \in Seq(T)
    BY <1>1
  <2>4. v \in Seq(T)
    BY <1>1
  <2> QED
    BY <2>1, <2>2, <2>3, <2>4
<1> HIDE DEF T
<1> QED
  BY <1>2, WithinConcat

LEMMA InUnion ==
    ASSUME NEW s, NEW t, IsSequence(s), IsSequence(t)
    PROVE  s \in Seq(ToSet(s) \cup ToSet(t)) /\ t \in Seq(ToSet(s) \cup ToSet(t))
<1> DEFINE S == ToSet(s)
           T == ToSet(t)
<1>1. s \in Seq(S) /\ t \in Seq(T)
  BY DEF IsSequence
<1> HIDE DEF S, T
<1>2. s \in Seq(S \cup T)
  BY <1>1
<1>3. t \in Seq(S \cup T)
  BY <1>1
<1> QED
  BY <1>2, <1>3 DEF S, T

LEMMA FlattenMappedConcat ==
    ASSUME NEW M, NEW g, \A m \in M : IsSequence(g[m]), NEW s \in Seq(M), NEW t \in Seq(M)
    PROVE  FlattenSeq(Mapped(g, s \o t)) = FlattenSeq(Mapped(g, s)) \o FlattenSeq(Mapped(g, t))
<1> DEFINE T == UNION {ToSet(g[m]) : m \in M}
           X == Seq(T)
           a == Mapped(g, s)
           b == Mapped(g, t)
<1>1. ASSUME NEW m \in M
      PROVE  g[m] \in Seq(T)
  <2> DEFINE U == ToSet(g[m])
  <2>1. g[m] \in Seq(U) /\ U \subseteq T
    BY DEF IsSequence
  <2> HIDE DEF T, U
  <2> QED
    BY <2>1
<1> HIDE DEF T
<1>2. MapsInto(g, M, X)
  BY <1>1 DEF MapsInto
<1>3. a \in Seq(Seq(T)) /\ b \in Seq(Seq(T)) /\ Mapped(g, s \o t) = a \o b
  <2> HIDE DEF X
  <2>1. a \in Seq(X) /\ b \in Seq(X) /\ Mapped(g, s \o t) = a \o b
    BY <1>2, MappedShape, MappedConcat
  <2> QED
    BY <2>1 DEF X
<1> HIDE DEF a, b
<1>4. FlattenSeq(a \o b) = FlattenSeq(a) \o FlattenSeq(b)
  BY <1>3, FlattenConcat
<1> QED
  BY <1>3, <1>4 DEF a, b

(* A function over the places of a sequence, all of whose values are sequences. *)
LEMMA PiecesOver ==
    ASSUME NEW s, IsSequence(s), NEW p, DOMAIN p = DOMAIN s, p = [i \in DOMAIN s |-> p[i]],
           \A i \in DOMAIN s : IsSequence(p[i])
    PROVE  Pieces(p) /\ Len(p) = Len(s)
<1>1. DOMAIN s = 1..Len(s) /\ Len(s) \in Nat
  BY SequenceFacts
<1>2. \A i \in 1..Len(s) : p[i] \in Seq(ToSet(p[i]))
  BY <1>1 DEF IsSequence
<1> QED
  BY <1>1, <1>2, MakePieces

LEMMA PiecesEqual ==
    ASSUME NEW p, Pieces(p), NEW q, Pieces(q), Len(p) = Len(q), \A i \in 1..Len(p) : p[i] = q[i]
    PROVE  p = q
<1> DEFINE P == ToSet(p)
           Q == ToSet(q)
<1>1. p \in Seq(P) /\ q \in Seq(Q)
  BY DEF Pieces
<1> HIDE DEF P, Q
<1> QED
  BY <1>1, SeqEqual

LEMMA FlattenIsSequence ==
    ASSUME NEW p, Pieces(p)
    PROVE  IsSequence(FlattenSeq(p)) /\ DOMAIN p = 1..Len(p) /\ Len(p) \in Nat
  BY PiecesType DEF IsSequence

-----------------------------------------------------------------------------
(* What one message says, and what its conversion says. *)

(* The bodies that can be read at all. *)
Readable(m) == /\ IsSequence(m.toolCalls)
               /\ m.content.form = "blocks" => IsSequence(m.content.blocks)

BlockTurns(style, role, blocks) == [i \in DOMAIN blocks |-> BlockTurn(style, role, blocks[i])]

LEMMA BlockTurnShape ==
    ASSUME NEW style, NEW role, NEW b
    PROVE  IsSequence(BlockTurn(style, role, b)) /\ Len(BlockTurn(style, role, b)) \in Nat
<1>1. \E x : BlockTurn(style, role, b) \in {<<x>>, <<>>}
  BY Zenon DEF BlockTurn
<1> QED
  BY <1>1, FewInSequence

LEMMA BlockTurnsPieces ==
    ASSUME NEW style, NEW role, NEW blocks, IsSequence(blocks)
    PROVE  /\ Pieces(BlockTurns(style, role, blocks))
           /\ Len(BlockTurns(style, role, blocks)) = Len(blocks)
<1> DEFINE p == BlockTurns(style, role, blocks)
<1>1. ASSUME NEW b
      PROVE  IsSequence(BlockTurn(style, role, b))
  BY BlockTurnShape
<1>2. /\ DOMAIN p = DOMAIN blocks /\ p = [i \in DOMAIN blocks |-> p[i]]
      /\ \A i \in DOMAIN blocks : p[i] = BlockTurn(style, role, blocks[i])
  BY DEF BlockTurns
<1> HIDE DEF p
<1>3. Pieces(p) /\ Len(p) = Len(blocks)
  BY <1>1, <1>2, PiecesOver
<1> QED
  BY <1>3 DEF p

LEMMA CallsShape ==
    ASSUME NEW m, IsSequence(m.toolCalls)
    PROVE  /\ IsSequence(Calls(m)) /\ Len(Calls(m)) = Len(m.toolCalls)
           /\ m.toolCalls = <<>> => Calls(m) = <<>>
<1> DEFINE c == Calls(m)
           calls == m.toolCalls
<1>1. DOMAIN calls = 1..Len(calls) /\ Len(calls) \in Nat
  BY SequenceFacts
<1>2. DOMAIN c = 1..Len(calls) /\ c = [i \in 1..Len(calls) |-> c[i]]
  BY <1>1 DEF Calls
<1> HIDE DEF c, calls
<1>3. c \in Seq(ToSet(c)) /\ Len(c) = Len(calls)
  BY <1>1, <1>2, FunctionIsSequence
<1>4. calls = <<>> => c = <<>>
  BY <1>3
<1> QED
  BY <1>3, <1>4 DEF IsSequence, c, calls

LEMMA TurnsShape ==
    ASSUME NEW style, NEW m, Readable(m)
    PROVE  /\ IsSequence(Spoken(style, m)) /\ IsSequence(Calls(m)) /\ IsSequence(MessageTurns(style, m))
           /\ Len(MessageTurns(style, m)) \in Nat
           /\ m.toolCalls = <<>> => MessageTurns(style, m) = Spoken(style, m)
<1>1. IsSequence(Spoken(style, m))
  <2>1. CASE m.role = "tool"
    BY <2>1, FewInSequence DEF Spoken
  <2>2. CASE m.role # "tool" /\ m.content.form = "blocks"
    <3> DEFINE p == BlockTurns(style, m.role, m.content.blocks)
    <3>1. Pieces(p)
      BY <2>2, BlockTurnsPieces DEF Readable
    <3>2. Spoken(style, m) = FlattenSeq(p)
      BY <2>2 DEF Spoken, BlockTurns, IsText
    <3> QED
      BY <3>1, <3>2, FlattenIsSequence
  <2>3. CASE m.role # "tool" /\ m.content.form # "blocks"
    BY <2>3, FewInSequence DEF Spoken, IsText
  <2> QED
    BY <2>1, <2>2, <2>3
<1>2. IsSequence(Calls(m)) /\ (m.toolCalls = <<>> => Calls(m) = <<>>)
  BY CallsShape DEF Readable
<1>3. IsSequence(MessageTurns(style, m))
  BY <1>1, <1>2, ConcatIsSequence DEF MessageTurns
<1>4. Len(MessageTurns(style, m)) \in Nat
  BY <1>3, SequenceFacts
<1>5. Spoken(style, m) \o <<>> = Spoken(style, m)
  BY <1>1, SequenceFacts
<1> QED
  BY <1>1, <1>2, <1>3, <1>4, <1>5 DEF MessageTurns

(* The blocks that only the other style knows. *)
Foreign(style) == IF style = "openai" THEN {"image", "tool_use", "tool_result"} ELSE {"image_url"}

LEMMA BlockTurnKept ==
    ASSUME NEW from \in Style, NEW to \in Style, NEW role, NEW b, b.type \notin Foreign(from)
    PROVE  /\ IsSequence(BlockTurn(to, role, b)) /\ IsSequence(BlockTurn(from, role, b))
           /\ Within(BlockTurn(to, role, b), BlockTurn(from, role, b))
           /\ b.type = "text" => BlockTurn(to, role, b) = BlockTurn(from, role, b)
<1>1. BlockTurn(to, role, b) = <<>> \/ BlockTurn(to, role, b) = BlockTurn(from, role, b)
  BY DEF BlockTurn, Foreign, Style
<1>2. b.type = "text" => BlockTurn(to, role, b) = BlockTurn(from, role, b)
  BY DEF BlockTurn
<1>3. Within(BlockTurn(to, role, b), BlockTurn(from, role, b))
  BY <1>1, BlockTurnShape, NothingWithin, WithinItself
<1> QED
  BY <1>2, <1>3, BlockTurnShape

LEMMA BlocksKept ==
    ASSUME NEW from \in Style, NEW to \in Style, NEW role, NEW blocks, IsSequence(blocks),
           \A i \in DOMAIN blocks : blocks[i].type \notin Foreign(from)
    PROVE  /\ Within(FlattenSeq(BlockTurns(to, role, blocks)), FlattenSeq(BlockTurns(from, role, blocks)))
           /\ (\A i \in DOMAIN blocks : blocks[i].type = "text") =>
                  BlockTurns(to, role, blocks) = BlockTurns(from, role, blocks)
<1> DEFINE a == BlockTurns(to, role, blocks)
           b == BlockTurns(from, role, blocks)
<1>1. /\ Pieces(a) /\ Pieces(b) /\ Len(a) = Len(blocks) /\ Len(b) = Len(blocks)
  BY BlockTurnsPieces
<1>2. /\ DOMAIN blocks = 1..Len(blocks)
      /\ \A i \in DOMAIN blocks : /\ a[i] = BlockTurn(to, role, blocks[i])
                                  /\ b[i] = BlockTurn(from, role, blocks[i])
      /\ a = [i \in DOMAIN blocks |-> a[i]] /\ b = [i \in DOMAIN blocks |-> b[i]]
  BY SequenceFacts DEF BlockTurns
<1> HIDE DEF a, b
<1>3. \A i \in 1..Len(a) : Within(a[i], b[i])
  BY <1>1, <1>2, BlockTurnKept
<1>4. Within(FlattenSeq(a), FlattenSeq(b))
  BY <1>1, <1>3, WithinPieces
<1>5. ASSUME \A i \in DOMAIN blocks : blocks[i].type = "text"
      PROVE  a = b
  <2>1. \A i \in DOMAIN blocks : a[i] = b[i]
    BY <1>2, <1>5, BlockTurnKept
  <2> QED
    BY <1>2, <2>1
<1> QED
  BY <1>4, <1>5 DEF a, b

(* A message that is passed on with its role and content. *)
LEMMA SpokenKept ==
    ASSUME NEW from \in Style, NEW to \in Style, NEW m, NEW n,
           WellFormedContent(from, m.content), n.content = m.content, n.role = m.role, m.role # "tool"
    PROVE  /\ Within(Spoken(to, n), Spoken(from, m))
           /\ \/ m.content.form # "blocks"
              \/ \A i \in DOMAIN m.content.blocks : m.content.blocks[i].type = "text"
              => Spoken(to, n) = Spoken(from, m)
<1>1. CASE m.content.form = "blocks"
  <2> DEFINE blocks == m.content.blocks
  <2>1. IsSequence(blocks) /\ \A i \in DOMAIN blocks : blocks[i].type \notin Foreign(from)
    <3>1. \A i \in DOMAIN blocks : blocks[i] \in ToSet(blocks)
      BY DEF ToSet
    <3> QED
      BY <1>1, <3>1 DEF WellFormedContent, IsText, Foreign, Style
  <2>2. /\ Spoken(to, n) = FlattenSeq(BlockTurns(to, m.role, blocks))
        /\ Spoken(from, m) = FlattenSeq(BlockTurns(from, m.role, blocks))
    BY <1>1 DEF Spoken, BlockTurns, IsText
  <2> QED
    BY <1>1, <2>1, <2>2, BlocksKept
<1>2. CASE m.content.form # "blocks"
  <2>1. Spoken(to, n) = Spoken(from, m) /\ \E x : Spoken(from, m) \in {<<x>>, <<>>}
    BY <1>2, Zenon DEF Spoken, IsText
  <2>2. Len(Spoken(from, m)) \in Nat
    BY <2>1, FewInSequence, SequenceFacts
  <2> QED
    BY <2>1, <2>2, WithinItself
<1> QED
  BY <1>1, <1>2

LEMMA WellFormedIsReadable ==
    ASSUME NEW style, NEW m, WellFormedMessage(style, m)
    PROVE  Readable(m)
  BY DEF WellFormedMessage, WellFormedContent, Readable, IsText

(* A message of Anthropic's, as the OpenAI API reads it after its conversion. *)
LEMMA MessageToOpenAIKept ==
    ASSUME NEW m, WellFormedMessage("anthropic", m), NEW n, n = Message(m.role, contentToOpenAI(m.content))
    PROVE  /\ Readable(n) /\ n.role # "system" /\ m.role # "system"
           /\ Within(MessageTurns("openai", n), MessageTurns("anthropic", m))
           /\ \/ IsText(m.content)
              \/ \A i \in DOMAIN m.content.blocks : m.content.blocks[i].type = "text"
              => MessageTurns("openai", n) = MessageTurns("anthropic", m)
<1>1. /\ n.role = m.role /\ n.content = m.content /\ n.toolCalls = <<>> /\ m.toolCalls = <<>>
      /\ m.role \in {"user", "assistant"} /\ WellFormedContent("anthropic", m.content)
  BY DEF Message, contentToOpenAI, WellFormedMessage
<1>2. Readable(m) /\ Readable(n)
  BY <1>1, WellFormedIsReadable, FewInSequence DEF Readable
<1>3. /\ MessageTurns("openai", n) = Spoken("openai", n)
      /\ MessageTurns("anthropic", m) = Spoken("anthropic", m)
  BY <1>1, <1>2, TurnsShape
<1>4. "openai" \in Style /\ "anthropic" \in Style
  BY DEF Style
<1>5. /\ Within(Spoken("openai", n), Spoken("anthropic", m))
      /\ \/ m.content.form # "blocks"
         \/ \A i \in DOMAIN m.content.blocks : m.content.blocks[i].type = "text"
         => Spoken("openai", n) = Spoken("anthropic", m)
  BY <1>1, <1>4, SpokenKept
<1>6. IsText(m.content) => m.content.form # "blocks"
  BY DEF IsText
<1> QED
  BY <1>1, <1>2, <1>3, <1>5, <1>6

-----------------------------------------------------------------------------
(* The messages of an OpenAI client, as Anthropic's API reads them. *)

(* What becomes of a message but its system prompts: c is MessageToAnthropic(m). *)
Kept(m, c) ==
    /\ c = <<>> \/ (Len(c) = 1 /\ IsSequence(c) /\ Readable(c[1]) /\ c[1].role # "system")
    /\ m.role # "system" =>
          LET turns == IF c = <<>> THEN <<>> ELSE MessageTurns("anthropic", c[1])
          IN  /\ Within(turns, MessageTurns("openai", m))
              /\ IsText(m.content) \/ (m.content = Null /\ m.toolCalls # <<>>)
                 => turns = MessageTurns("openai", m)
    /\ m.role = "system" => c = <<>>

(* One message, for one message. *)
LEMMA OneKept ==
    ASSUME NEW m, NEW n, NEW c, c = <<n>>, Readable(n), n.role # "system", m.role # "system",
           Within(MessageTurns("anthropic", n), MessageTurns("openai", m)),
           IsText(m.content) \/ (m.content = Null /\ m.toolCalls # <<>>)
           => MessageTurns("anthropic", n) = MessageTurns("openai", m)
    PROVE  Kept(m, c)
<1>1. IsSequence(c) /\ Len(c) = 1 /\ c[1] = n
  BY FewInSequence
<1>2. c # <<>>
  BY <1>1, FewInSequence
<1> QED
  BY <1>1, <1>2 DEF Kept

LEMMA OthersKept ==
    ASSUME NEW m, WellFormedMessage("openai", m), m.role \notin {"system", "user", "assistant", "tool"}
    PROVE  Kept(m, MessageToAnthropic(m))
<1>1. MessageToAnthropic(m) = <<m>>
  BY DEF MessageToAnthropic
<1>2. Readable(m) /\ m.toolCalls = <<>> /\ WellFormedContent("openai", m.content)
  BY WellFormedIsReadable DEF WellFormedMessage
<1>3. /\ MessageTurns("anthropic", m) = Spoken("anthropic", m)
      /\ MessageTurns("openai", m) = Spoken("openai", m)
  BY <1>2, TurnsShape
<1>4. "openai" \in Style /\ "anthropic" \in Style
  BY DEF Style
<1>5. /\ Within(Spoken("anthropic", m), Spoken("openai", m))
      /\ m.content.form # "blocks" => Spoken("anthropic", m) = Spoken("openai", m)
  BY <1>2, <1>4, SpokenKept
<1>6. IsText(m.content) => m.content.form # "blocks"
  BY DEF IsText
<1> QED
  BY <1>1, <1>2, <1>3, <1>5, <1>6, OneKept

LEMMA ToolKept ==
    ASSUME NEW m, WellFormedMessage("openai", m), m.role = "tool"
    PROVE  Kept(m, MessageToAnthropic(m))
<1>1. Readable(m) /\ m.toolCalls = <<>>
  BY WellFormedIsReadable DEF WellFormedMessage
<1>2. MessageTurns("openai", m) = <<[who |-> "result", what |-> m.answers]>>
  BY <1>1, TurnsShape DEF Spoken
<1>3. CASE ~IsText(m.content)
  <2>1. MessageToAnthropic(m) = <<>>
    BY <1>3 DEF MessageToAnthropic
  <2>2. Within(<<>>, MessageTurns("openai", m))
    BY <1>1, TurnsShape, NothingWithin
  <2> QED
    BY <1>1, <1>3, <2>1, <2>2 DEF Kept
<1>4. CASE IsText(m.content)
  <2> DEFINE block == ToolResult(m.answers, m.content.text)
             blocks == <<block>>
             n == Message("user", Blocks(blocks))
             turn == [who |-> "result", what |-> m.answers]
             p == BlockTurns("anthropic", "user", blocks)
  <2>1. MessageToAnthropic(m) = <<n>>
    BY <1>4 DEF MessageToAnthropic
  <2>2. BlockTurn("anthropic", "user", block) = <<turn>>
    BY DEF ToolResult, BlockTurn
  <2>3. IsSequence(blocks) /\ DOMAIN blocks = 1..1 /\ blocks[1] = block
    BY FewInSequence
  <2> HIDE DEF blocks
  <2>4. p = <<<<turn>>>>
    BY <2>2, <2>3 DEF BlockTurns
  <2>5. FlattenSeq(p) = <<turn>>
    <3>1. <<turn>> \in Seq(ToSet(<<turn>>))
      BY FewInSequence DEF IsSequence
    <3> QED
      BY <2>4, <3>1, FlattenFew
  <2>6. n.toolCalls = <<>> /\ n.role = "user" /\ n.content.form = "blocks" /\ n.content.blocks = blocks
    BY DEF Message, Blocks
  <2> HIDE DEF n, p
  <2>7. Readable(n) /\ MessageTurns("anthropic", n) = <<turn>>
    <3>1. Readable(n)
      BY <2>3, <2>6, FewInSequence DEF Readable
    <3>2. Spoken("anthropic", n) = FlattenSeq(p)
      BY <2>6 DEF Spoken, IsText, BlockTurns, p
    <3> QED
      BY <2>5, <2>6, <3>1, <3>2, TurnsShape
  <2>8. Within(<<turn>>, <<turn>>)
    BY FewInSequence, WithinItself
  <2> QED
    BY <1>2, <2>1, <2>6, <2>7, <2>8, OneKept
<1> QED
  BY <1>3, <1>4

(* The calls of an assistant, as blocks and as the turns that they are read as. *)
LEMMA CallBlocks ==
    ASSUME NEW m, IsSequence(m.toolCalls),
           NEW uses, uses = [i \in DOMAIN m.toolCalls |->
                                ToolUse(m.toolCalls[i].id, m.toolCalls[i].function.name,
                                        m.toolCalls[i].function.arguments)]
    PROVE  /\ IsSequence(uses)
           /\ FlattenSeq(BlockTurns("anthropic", "assistant", uses)) = Calls(m)
<1> DEFINE calls == m.toolCalls
           turns == Calls(m)
           p == BlockTurns("anthropic", "assistant", uses)
<1>1. DOMAIN calls = 1..Len(calls) /\ Len(calls) \in Nat
  BY SequenceFacts
<1>2. DOMAIN uses = 1..Len(calls) /\ uses = [i \in 1..Len(calls) |-> uses[i]]
  BY <1>1
<1>3. IsSequence(uses)
  BY <1>1, <1>2, FunctionIsSequence DEF IsSequence
<1>4. ASSUME NEW i \in DOMAIN uses
      PROVE  p[i] = <<turns[i]>>
  <2> DEFINE u == uses[i]
  <2>1. u.type = "tool_use" /\ u.id = calls[i].id
    BY <1>1, <1>2 DEF ToolUse
  <2>2. turns[i] = [who |-> "call", what |-> u.id]
    BY <1>1, <1>2, <2>1 DEF Calls
  <2> HIDE DEF u, turns
  <2>3. BlockTurn("anthropic", "assistant", u) = <<turns[i]>>
    BY <2>1, <2>2 DEF BlockTurn
  <2> QED
    BY <2>3 DEF BlockTurns, u
<1>5. IsSequence(turns) /\ Len(turns) = Len(calls) /\ DOMAIN turns = DOMAIN uses
  BY <1>1, <1>2, CallsShape, SequenceFacts
<1>6. DOMAIN p = DOMAIN uses /\ p = [i \in DOMAIN uses |-> p[i]]
  BY DEF BlockTurns
<1> HIDE DEF p, turns
<1>7. p = [i \in DOMAIN turns |-> <<turns[i]>>]
  BY <1>4, <1>5, <1>6
<1>8. FlattenSeq(p) = turns
  BY <1>5, <1>7, FlattenSingles DEF IsSequence
<1> QED
  BY <1>3, <1>8 DEF p, turns

LEMMA BlockTurnsConcat ==
    ASSUME NEW style, NEW role, NEW a, NEW b, IsSequence(a), IsSequence(b)
    PROVE  FlattenSeq(BlockTurns(style, role, a \o b)) =
               FlattenSeq(BlockTurns(style, role, a)) \o FlattenSeq(BlockTurns(style, role, b))
<1> DEFINE M == ToSet(a) \cup ToSet(b)
           g == [x \in M |-> BlockTurn(style, role, x)]
           ab == a \o b
<1>1. a \in Seq(M) /\ b \in Seq(M)
  BY InUnion
<1>2. ab \in Seq(M)
  <2> HIDE DEF M
  <2> QED
    BY <1>1
<1>3. \A x \in M : g[x] = BlockTurn(style, role, x)
  OBVIOUS
<1> HIDE DEF M, g, ab
<1>4. \A x \in M : IsSequence(g[x])
  BY <1>3, BlockTurnShape
<1>5. FlattenSeq(Mapped(g, ab)) = FlattenSeq(Mapped(g, a)) \o FlattenSeq(Mapped(g, b))
  BY <1>1, <1>4, FlattenMappedConcat DEF ab
<1>6. ASSUME NEW s \in Seq(M)
      PROVE  BlockTurns(style, role, s) = Mapped(g, s)
  <2>1. \A i \in DOMAIN s : s[i] \in M
    OBVIOUS
  <2> QED
    BY <1>3, <2>1 DEF BlockTurns, Mapped
<1>7. /\ BlockTurns(style, role, ab) = Mapped(g, ab)
      /\ BlockTurns(style, role, a) = Mapped(g, a) /\ BlockTurns(style, role, b) = Mapped(g, b)
  BY <1>1, <1>2, <1>6
<1> QED
  BY <1>5, <1>7 DEF ab

(* An assistant's calls: the text beside them is kept, blocks are not. *)
LEMMA CallingKept ==
    ASSUME NEW m, WellFormedMessage("openai", m), m.role = "assistant", m.toolCalls # <<>>
    PROVE  Kept(m, MessageToAnthropic(m))
<1> DEFINE uses == [i \in DOMAIN m.toolCalls |->
                       ToolUse(m.toolCalls[i].id, m.toolCalls[i].function.name,
                               m.toolCalls[i].function.arguments)]
           block == TextBlock(m.content.text)
           text == IF Says(m.content) THEN <<block>> ELSE <<>>
           blocks == text \o uses
           n == Message("assistant", Blocks(blocks))
           turn == [who |-> "assistant", what |-> m.content.text]
           said == IF Says(m.content) THEN <<turn>> ELSE <<>>
<1>1. MessageToAnthropic(m) = <<n>>
  BY DEF MessageToAnthropic
<1>2. Readable(m) /\ WellFormedContent("openai", m.content) /\ IsSequence(m.toolCalls)
  BY WellFormedIsReadable DEF WellFormedMessage
<1>3. IsSequence(uses) /\ FlattenSeq(BlockTurns("anthropic", "assistant", uses)) = Calls(m)
  BY <1>2, CallBlocks
<1> HIDE DEF uses
<1>4. IsSequence(text) /\ IsSequence(said) /\ FlattenSeq(BlockTurns("anthropic", "assistant", text)) = said
  <2> DEFINE p == BlockTurns("anthropic", "assistant", text)
  <2>1. CASE Says(m.content)
    <3>1. BlockTurn("anthropic", "assistant", block) = <<turn>>
      BY DEF TextBlock, BlockTurn
    <3>2. /\ IsSequence(text) /\ DOMAIN text = 1..1 /\ text[1] = block
          /\ IsSequence(said) /\ said = <<turn>>
      BY <2>1, FewInSequence
    <3> HIDE DEF text, block, said
    <3>3. p = <<said>>
      BY <3>1, <3>2 DEF BlockTurns
    <3>4. FlattenSeq(<<said>>) = said
      BY <3>2, FlattenFew DEF IsSequence
    <3> QED
      BY <3>2, <3>3, <3>4
  <2>2. CASE ~Says(m.content)
    <3>1. text = <<>> /\ said = <<>>
      BY <2>2
    <3>2. p = <<>>
      BY <3>1 DEF BlockTurns
    <3> QED
      BY <3>1, <3>2, FewInSequence DEF FlattenSeq
  <2> QED
    BY <2>1, <2>2
<1> HIDE DEF text
<1>5. IsSequence(blocks)
  BY <1>3, <1>4, ConcatIsSequence
<1>6. FlattenSeq(BlockTurns("anthropic", "assistant", blocks)) = said \o Calls(m)
  <2>1. FlattenSeq(BlockTurns("anthropic", "assistant", text \o uses)) =
            FlattenSeq(BlockTurns("anthropic", "assistant", text)) \o
            FlattenSeq(BlockTurns("anthropic", "assistant", uses))
    BY <1>3, <1>4, BlockTurnsConcat
  <2> HIDE DEF said
  <2> QED
    BY <1>3, <1>4, <2>1
<1> HIDE DEF blocks
<1>7. n.toolCalls = <<>> /\ n.role = "assistant" /\ n.content.form = "blocks" /\ n.content.blocks = blocks
  BY DEF Message, Blocks
<1> HIDE DEF n
<1>8. Readable(n) /\ MessageTurns("anthropic", n) = said \o Calls(m)
  <2>1. Readable(n)
    BY <1>5, <1>7, FewInSequence DEF Readable
  <2>2. Spoken("anthropic", n) = FlattenSeq(BlockTurns("anthropic", "assistant", blocks))
    BY <1>7 DEF Spoken, Says, IsText, BlockTurns
  <2> QED
    BY <1>6, <1>7, <2>1, <2>2, TurnsShape
<1>9. MessageTurns("openai", m) = Spoken("openai", m) \o Calls(m)
  BY DEF MessageTurns
<1>10. IsSequence(Spoken("openai", m)) /\ IsSequence(Calls(m))
  BY <1>2, TurnsShape
<1>11. /\ IsText(m.content) \/ m.content = Null => said = Spoken("openai", m)
       /\ Within(said, Spoken("openai", m))
  <2>1. IsText(m.content) => said = Spoken("openai", m)
    <3>1. CASE Says(m.content)
      <4>1. said = <<turn>>
        BY <3>1
      <4>2. m.role # "tool" /\ turn = [who |-> m.role, what |-> m.content.text]
        OBVIOUS
      <4> HIDE DEF said, turn
      <4>3. Spoken("openai", m) = <<turn>>
        BY <3>1, <4>2 DEF Spoken, Says, IsText
      <4> QED
        BY <4>1, <4>3
    <3>2. CASE IsText(m.content) /\ ~Says(m.content)
      <4>1. m.content.form # "blocks"
        BY <3>2 DEF IsText
      <4>2. Spoken("openai", m) = <<>> /\ said = <<>>
        BY <3>2, <4>1 DEF Spoken
      <4> QED
        BY <4>2
    <3> QED
      BY <3>1, <3>2
  <2>2. m.content = Null => said = Spoken("openai", m)
    BY DEF Spoken, Says, Null, IsText
  <2>3. said = <<>> \/ said = Spoken("openai", m)
    BY <2>1 DEF Says
  <2>4. Len(Spoken("openai", m)) \in Nat
    BY <1>10, SequenceFacts
  <2> HIDE DEF said
  <2>5. Within(said, Spoken("openai", m))
    BY <2>3, <2>4, NothingWithin, WithinItself
  <2> QED
    BY <2>1, <2>2, <2>5
<1> HIDE DEF said
<1>12. Within(said \o Calls(m), Spoken("openai", m) \o Calls(m))
  <2>1. Within(Calls(m), Calls(m))
    BY <1>10, SequenceFacts, WithinItself
  <2> QED
    BY <1>4, <1>10, <1>11, <2>1, WithinBoth
<1> QED
  BY <1>1, <1>7, <1>8, <1>9, <1>11, <1>12, OneKept

Picture(b) == IF b.type = "image_url" THEN <<[type |-> "image", url |-> b.url]>> ELSE <<>>

Pictures(blocks) == [i \in DOMAIN blocks |-> Picture(blocks[i])]

LEMMA PictureShape ==
    ASSUME NEW b, NEW role, NEW g, \A e \in ToSet(Picture(b)) : g[e] = BlockTurn("anthropic", role, e)
    PROVE  /\ IsSequence(Picture(b))
           /\ IsSequence(FlattenSeq(Mapped(g, Picture(b))))
           /\ Within(FlattenSeq(Mapped(g, Picture(b))), BlockTurn("openai", role, b))
<1>1. CASE b.type = "image_url"
  <2> DEFINE image == [type |-> "image", url |-> b.url]
             turn == [who |-> role, what |-> b.url]
             said == <<turn>>
             picture == Picture(b)
  <2>1. picture = <<image>>
    BY <1>1 DEF Picture
  <2>2. BlockTurn("anthropic", role, image) = said /\ BlockTurn("openai", role, b) = said
    <3>1. image.type = "image" /\ image.url = b.url
      OBVIOUS
    <3> HIDE DEF image
    <3> QED
      BY <1>1, <3>1 DEF BlockTurn
  <2>3. /\ IsSequence(picture) /\ DOMAIN picture = 1..1 /\ picture[1] = image /\ ToSet(picture) = {image}
        /\ IsSequence(said) /\ Len(said) \in Nat
    BY <2>1, FewInSequence
  <2> HIDE DEF image, said, picture
  <2>4. Mapped(g, picture) = <<said>>
    <3>1. g[image] = said
      BY <2>2, <2>3 DEF picture
    <3> QED
      BY <2>3, <3>1 DEF Mapped
  <2>5. FlattenSeq(<<said>>) = said
    BY <2>3, FlattenFew DEF IsSequence
  <2> QED
    BY <2>2, <2>3, <2>4, <2>5, WithinItself DEF picture
<1>2. CASE b.type # "image_url"
  <2>1. Picture(b) = <<>>
    BY <1>2 DEF Picture
  <2>2. Mapped(g, <<>>) = <<>>
    BY FewInSequence DEF Mapped
  <2>3. FlattenSeq(<<>>) = <<>>
    BY FlattenFew, FewInSequence DEF IsSequence
  <2>4. FlattenSeq(Mapped(g, Picture(b))) = <<>>
    BY <2>1, <2>2, <2>3
  <2>5. IsSequence(<<>>) /\ Within(<<>>, BlockTurn("openai", role, b))
    BY BlockTurnShape, FewInSequence, NothingWithin
  <2> QED
    BY <2>1, <2>4, <2>5
<1> QED
  BY <1>1, <1>2

(* Of blocks with images, the images are kept. *)
LEMMA ImagesKept ==
    ASSUME NEW role, NEW blocks, IsSequence(blocks),
           NEW images, images = FlattenSeq(Pictures(blocks))
    PROVE  /\ IsSequence(images)
           /\ Within(FlattenSeq(BlockTurns("anthropic", role, images)),
                     FlattenSeq(BlockTurns("openai", role, blocks)))
<1> DEFINE c == Pictures(blocks)
           M == Elements(c)
           g == [e \in M |-> BlockTurn("anthropic", role, e)]
           q == [i \in DOMAIN c |-> FlattenSeq(Mapped(g, c[i]))]
           b == BlockTurns("openai", role, blocks)
<1>1. DOMAIN blocks = 1..Len(blocks) /\ Len(blocks) \in Nat
  BY SequenceFacts
<1>2. /\ DOMAIN c = DOMAIN blocks /\ c = [i \in DOMAIN blocks |-> c[i]]
      /\ \A i \in DOMAIN blocks : c[i] = Picture(blocks[i])
  BY DEF Pictures
<1>3. \A e \in M : g[e] = BlockTurn("anthropic", role, e)
  OBVIOUS
<1>4. \A i \in DOMAIN c : ToSet(c[i]) \subseteq M
  BY DEF Elements
<1>5. /\ DOMAIN q = DOMAIN c /\ q = [i \in DOMAIN c |-> q[i]]
      /\ \A i \in DOMAIN c : q[i] = FlattenSeq(Mapped(g, c[i]))
  OBVIOUS
<1> HIDE DEF c, M, g, q
<1>6. ASSUME NEW i \in DOMAIN blocks
      PROVE  IsSequence(c[i]) /\ IsSequence(q[i]) /\ Within(q[i], BlockTurn("openai", role, blocks[i]))
  <2>1. \A e \in ToSet(Picture(blocks[i])) : g[e] = BlockTurn("anthropic", role, e)
    BY <1>2, <1>3, <1>4
  <2> QED
    BY <1>2, <1>5, <2>1, PictureShape
<1>7. Pieces(c) /\ Pieces(q) /\ Len(c) = Len(blocks) /\ Len(q) = Len(blocks)
  <2>1. Pieces(c) /\ Len(c) = Len(blocks)
    BY <1>2, <1>6, PiecesOver
  <2>2. Pieces(q) /\ Len(q) = Len(blocks)
    BY <1>2, <1>5, <1>6, PiecesOver
  <2> QED
    BY <2>1, <2>2
<1>8. Pieces(b) /\ Len(b) = Len(blocks) /\ \A i \in DOMAIN blocks : b[i] = BlockTurn("openai", role, blocks[i])
  BY BlockTurnsPieces DEF BlockTurns
<1> HIDE DEF b
<1>9. Within(FlattenSeq(q), FlattenSeq(b))
  <2>1. \A i \in 1..Len(q) : Within(q[i], b[i])
    BY <1>1, <1>6, <1>7, <1>8
  <2> QED
    BY <1>7, <1>8, <2>1, WithinPieces
<1>10. FlattenSeq(Mapped(g, FlattenSeq(c))) = FlattenSeq(q)
  <2>1. \A e \in M : g[e] \in Seq(ToSet(g[e]))
    <3>1. \A e \in M : IsSequence(g[e])
      BY <1>3, BlockTurnShape
    <3> QED
      BY <3>1 DEF IsSequence
  <2> QED
    BY <1>5, <1>7, <2>1, FlattenThrough DEF M, q
<1>11. IsSequence(images) /\ images \in Seq(M)
  BY <1>7, PiecesType DEF c, M, IsSequence
<1>12. BlockTurns("anthropic", role, images) = Mapped(g, images)
  <2>1. \A i \in DOMAIN images : images[i] \in M
    BY <1>11
  <2> QED
    BY <1>3, <2>1 DEF BlockTurns, Mapped
<1> QED
  BY <1>9, <1>10, <1>11, <1>12 DEF c, b

LEMMA PlainKept ==
    ASSUME NEW m, WellFormedMessage("openai", m),
           m.role = "user" \/ (m.role = "assistant" /\ m.toolCalls = <<>>)
    PROVE  Kept(m, MessageToAnthropic(m))
<1> DEFINE n == Message(m.role, contentToAnthropic(m.content))
<1>1. MessageToAnthropic(m) = <<n>>
  BY DEF MessageToAnthropic
<1>2. Readable(m) /\ m.toolCalls = <<>> /\ WellFormedContent("openai", m.content)
  BY WellFormedIsReadable DEF WellFormedMessage
<1>3. n.role = m.role /\ n.content = contentToAnthropic(m.content) /\ n.toolCalls = <<>>
  BY DEF Message
<1>4. "openai" \in Style /\ "anthropic" \in Style
  BY DEF Style
<1> HIDE DEF n
<1>5. CASE n.content = m.content
  <2>1. Readable(n)
    BY <1>2, <1>3, <1>5, FewInSequence DEF Readable
  <2>2. /\ MessageTurns("anthropic", n) = Spoken("anthropic", n)
        /\ MessageTurns("openai", m) = Spoken("openai", m)
    BY <1>2, <1>3, <2>1, TurnsShape
  <2>3. /\ Within(Spoken("anthropic", n), Spoken("openai", m))
        /\ m.content.form # "blocks" => Spoken("anthropic", n) = Spoken("openai", m)
    BY <1>2, <1>3, <1>4, <1>5, SpokenKept
  <2>4. IsText(m.content) => m.content.form # "blocks"
    BY DEF IsText
  <2> QED
    BY <1>1, <1>2, <1>3, <2>1, <2>2, <2>3, <2>4, OneKept
<1>6. CASE n.content # m.content
  <2> DEFINE blocks == m.content.blocks
             images == FlattenSeq(Pictures(blocks))
  <2>1. m.content.form = "blocks" /\ n.content = Blocks(images)
    BY <1>3, <1>6 DEF contentToAnthropic, Pictures, Picture
  <2>2. IsSequence(blocks)
    BY <1>2, <2>1 DEF Readable
  <2>3. n.content.form = "blocks" /\ n.content.blocks = images
    BY <2>1 DEF Blocks
  <2> HIDE DEF images
  <2>4. /\ IsSequence(images)
        /\ Within(FlattenSeq(BlockTurns("anthropic", m.role, images)),
                  FlattenSeq(BlockTurns("openai", m.role, blocks)))
    BY <2>2, ImagesKept DEF images
  <2>5. Readable(n)
    BY <1>3, <2>3, <2>4, FewInSequence DEF Readable
  <2>6. /\ MessageTurns("anthropic", n) = FlattenSeq(BlockTurns("anthropic", m.role, images))
        /\ MessageTurns("openai", m) = FlattenSeq(BlockTurns("openai", m.role, blocks))
    <3>1. Spoken("anthropic", n) = FlattenSeq(BlockTurns("anthropic", m.role, images))
      BY <1>3, <2>3 DEF Spoken, IsText, BlockTurns
    <3>2. Spoken("openai", m) = FlattenSeq(BlockTurns("openai", m.role, blocks))
      BY <2>1 DEF Spoken, IsText, BlockTurns
    <3> QED
      BY <1>2, <1>3, <2>5, <3>1, <3>2, TurnsShape
  <2>7. ~IsText(m.content)
    BY <2>1 DEF IsText
  <2> QED
    BY <1>1, <1>2, <1>3, <2>4, <2>5, <2>6, <2>7, OneKept
<1> QED
  BY <1>5, <1>6

(* Every message is kept, but for what Anthropic's API has no place for. *)
LEMMA MessageKept ==
    ASSUME NEW m, WellFormedMessage("openai", m)
    PROVE  Kept(m, MessageToAnthropic(m))
<1>1. CASE m.role = "system"
  <2>1. MessageToAnthropic(m) = <<>>
    BY <1>1 DEF MessageToAnthropic
  <2> QED
    BY <1>1, <2>1 DEF Kept
<1>2. CASE m.role \in {"user", "assistant"}
  BY <1>2, PlainKept, CallingKept
<1>3. CASE m.role = "tool"
  BY <1>3, ToolKept
<1> QED
  BY <1>1, <1>2, <1>3, OthersKept

-----------------------------------------------------------------------------
(* The conversation. *)

(* MessageTurns of each message, and what Dialogue has of it. *)
AllTurns(style, messages) == [i \in DOMAIN messages |-> MessageTurns(style, messages[i])]

SpokenOf(style, messages) ==
    [i \in DOMAIN messages |->
        IF messages[i].role = "system" THEN <<>> ELSE MessageTurns(style, messages[i])]

AllReadable(messages) == IsSequence(messages) /\ \A i \in DOMAIN messages : Readable(messages[i])

LEMMA TurnsPieces ==
    ASSUME NEW style, NEW messages, AllReadable(messages)
    PROVE  /\ Pieces(AllTurns(style, messages)) /\ Len(AllTurns(style, messages)) = Len(messages)
           /\ Pieces(SpokenOf(style, messages)) /\ Len(SpokenOf(style, messages)) = Len(messages)
<1> DEFINE p == AllTurns(style, messages)
           q == SpokenOf(style, messages)
<1>1. /\ DOMAIN p = DOMAIN messages /\ p = [i \in DOMAIN messages |-> p[i]]
      /\ DOMAIN q = DOMAIN messages /\ q = [i \in DOMAIN messages |-> q[i]]
      /\ \A i \in DOMAIN messages :
            p[i] = MessageTurns(style, messages[i]) /\ q[i] \in {<<>>, MessageTurns(style, messages[i])}
  BY DEF AllTurns, SpokenOf
<1> HIDE DEF p, q
<1>2. \A i \in DOMAIN messages : IsSequence(MessageTurns(style, messages[i]))
  BY TurnsShape DEF AllReadable
<1>3. \A i \in DOMAIN messages : IsSequence(p[i]) /\ IsSequence(q[i])
  BY <1>1, <1>2, FewInSequence
<1>4. IsSequence(messages)
  BY DEF AllReadable
<1> QED
  BY <1>1, <1>3, <1>4, PiecesOver DEF p, q

(* The turns of the converted messages, message by message of the client's. *)
ConvertedTurns(messages) ==
    [i \in DOMAIN messages |->
        LET c == MessageToAnthropic(messages[i])
        IN  IF c = <<>> THEN <<>> ELSE MessageTurns("anthropic", c[1])]

LEMMA ConvertedShape ==
    ASSUME NEW messages, IsSequence(messages),
           \A i \in DOMAIN messages : WellFormedMessage("openai", messages[i]),
           NEW new, new = convertMessagesToAnthropic(messages)
    PROVE  /\ Pieces(ConvertedTurns(messages)) /\ Len(ConvertedTurns(messages)) = Len(messages)
           /\ AllReadable(new) /\ \A i \in DOMAIN new : new[i].role # "system"
           /\ FlattenSeq(AllTurns("anthropic", new)) = FlattenSeq(ConvertedTurns(messages))
<1> DEFINE c == [i \in DOMAIN messages |-> MessageToAnthropic(messages[i])]
           M == Elements(c)
           g == [m \in M |-> MessageTurns("anthropic", m)]
           q == [i \in DOMAIN c |-> FlattenSeq(Mapped(g, c[i]))]
           r == ConvertedTurns(messages)
<1>1. /\ DOMAIN c = DOMAIN messages /\ c = [i \in DOMAIN messages |-> c[i]]
      /\ \A i \in DOMAIN messages : c[i] = MessageToAnthropic(messages[i])
  OBVIOUS
<1>2. new = FlattenSeq(c)
  BY DEF convertMessagesToAnthropic
<1>3. \A m \in M : g[m] = MessageTurns("anthropic", m)
  OBVIOUS
<1>4. /\ DOMAIN q = DOMAIN c /\ q = [i \in DOMAIN c |-> q[i]]
      /\ \A i \in DOMAIN c : q[i] = FlattenSeq(Mapped(g, c[i]))
  OBVIOUS
<1>5. /\ DOMAIN r = DOMAIN messages /\ r = [i \in DOMAIN messages |-> r[i]]
      /\ \A i \in DOMAIN messages :
            r[i] = IF MessageToAnthropic(messages[i]) = <<>> THEN <<>>
                   ELSE MessageTurns("anthropic", MessageToAnthropic(messages[i])[1])
  BY DEF ConvertedTurns
<1>6. M = UNION {ToSet(c[i]) : i \in DOMAIN c}
  BY DEF Elements
<1> HIDE DEF c, M, g, q, r
<1>7. ASSUME NEW i \in DOMAIN messages
      PROVE  \/ c[i] = <<>>
             \/ Len(c[i]) = 1 /\ IsSequence(c[i]) /\ Readable(c[i][1]) /\ c[i][1].role # "system"
  BY <1>1, MessageKept DEF Kept
<1>8. \A i \in DOMAIN messages : IsSequence(c[i])
  BY <1>7, FewInSequence
<1>9. Pieces(c) /\ Len(c) = Len(messages)
  BY <1>1, <1>8, PiecesOver
<1>10. ASSUME NEW m \in M
       PROVE  Readable(m) /\ m.role # "system" /\ IsSequence(g[m])
  <2>1. PICK i \in DOMAIN messages : m \in ToSet(c[i])
    BY <1>1, <1>6
  <2>2. c[i] # <<>>
    BY <2>1, FewInSequence DEF ToSet
  <2>3. Len(c[i]) = 1 /\ IsSequence(c[i]) /\ Readable(c[i][1]) /\ c[i][1].role # "system"
    BY <1>7, <2>2
  <2>4. DOMAIN c[i] = 1..1
    BY <2>3, SequenceFacts
  <2>5. m = c[i][1]
    BY <2>1, <2>4 DEF ToSet
  <2> QED
    BY <1>3, <2>3, <2>5, TurnsShape
<1>11. IsSequence(new) /\ new \in Seq(M)
  BY <1>2, <1>9, PiecesType DEF M, IsSequence
<1>12. \A i \in DOMAIN new : new[i] \in M
  BY <1>11
<1>13. AllReadable(new) /\ \A i \in DOMAIN new : new[i].role # "system"
  BY <1>10, <1>11, <1>12 DEF AllReadable
<1>14. AllTurns("anthropic", new) = Mapped(g, new)
  BY <1>3, <1>12 DEF AllTurns, Mapped
<1>15. FlattenSeq(Mapped(g, FlattenSeq(c))) = FlattenSeq(q)
  <2>1. \A m \in M : g[m] \in Seq(ToSet(g[m]))
    BY <1>10 DEF IsSequence
  <2> QED
    BY <1>9, <2>1, FlattenThrough DEF M, q
<1>16. ASSUME NEW i \in DOMAIN messages
       PROVE  IsSequence(r[i]) /\ q[i] = r[i]
  <2>1. CASE c[i] = <<>>
    <3>1. Mapped(g, <<>>) = <<>>
      BY FewInSequence DEF Mapped
    <3>2. FlattenSeq(<<>>) = <<>>
      BY FlattenFew, FewInSequence DEF IsSequence
    <3>3. q[i] = <<>> /\ r[i] = <<>>
      BY <1>1, <1>4, <1>5, <2>1, <3>1, <3>2
    <3> QED
      BY <3>3, FewInSequence
  <2>2. CASE c[i] # <<>>
    <3> DEFINE s == c[i]
               m == s[1]
               turns == MessageTurns("anthropic", m)
    <3>1. Len(s) = 1 /\ IsSequence(s) /\ Readable(m)
      BY <1>7, <2>2
    <3>2. DOMAIN s = 1..1
      BY <3>1, SequenceFacts
    <3>3. m \in M /\ r[i] = turns
      BY <1>1, <1>5, <1>6, <2>2, <3>2 DEF ToSet
    <3>4. IsSequence(turns)
      BY <3>1, TurnsShape
    <3> HIDE DEF turns, s
    <3>5. Mapped(g, s) = <<turns>>
      BY <1>3, <3>2, <3>3 DEF Mapped, turns
    <3>6. FlattenSeq(<<turns>>) = turns
      BY <3>4, FlattenFew DEF IsSequence
    <3>7. q[i] = turns
      BY <1>1, <1>4, <3>5, <3>6 DEF s
    <3> QED
      BY <3>3, <3>4, <3>7
  <2> QED
    BY <2>1, <2>2
<1>17. q = r
  BY <1>1, <1>4, <1>5, <1>16
<1>18. Pieces(r) /\ Len(r) = Len(messages)
  BY <1>5, <1>16, PiecesOver
<1> QED
  BY <1>2, <1>13, <1>14, <1>15, <1>17, <1>18 DEF r

LEMMA TurnsConcat ==
    ASSUME NEW style, NEW s, NEW t, AllReadable(s), AllReadable(t)
    PROVE  /\ AllReadable(s \o t)
           /\ FlattenSeq(AllTurns(style, s \o t)) =
                  FlattenSeq(AllTurns(style, s)) \o FlattenSeq(AllTurns(style, t))
           /\ FlattenSeq(SpokenOf(style, s \o t)) =
                  FlattenSeq(SpokenOf(style, s)) \o FlattenSeq(SpokenOf(style, t))
<1> DEFINE M == ToSet(s) \cup ToSet(t)
           g == [m \in M |-> MessageTurns(style, m)]
           h == [m \in M |-> IF m.role = "system" THEN <<>> ELSE MessageTurns(style, m)]
           st == s \o t
<1>1. s \in Seq(M) /\ t \in Seq(M)
  BY InUnion DEF AllReadable
<1>2. IsSequence(st) /\ st \in Seq(M)
  <2>1. IsSequence(st)
    BY ConcatIsSequence DEF AllReadable
  <2> HIDE DEF M
  <2> QED
    BY <1>1, <2>1
<1>3. \A m \in M : /\ g[m] = MessageTurns(style, m)
                   /\ h[m] = IF m.role = "system" THEN <<>> ELSE MessageTurns(style, m)
  OBVIOUS
<1>4. \A m \in M : Readable(m)
  BY DEF AllReadable, ToSet
<1> HIDE DEF M, g, h, st
<1>5. \A m \in M : IsSequence(g[m])
  BY <1>3, <1>4, TurnsShape
<1>6. \A m \in M : IsSequence(h[m])
  <2>1. \A m \in M : h[m] = g[m] \/ h[m] = <<>>
    BY <1>3
  <2> QED
    BY <1>5, <2>1, FewInSequence
<1>7. FlattenSeq(Mapped(g, st)) = FlattenSeq(Mapped(g, s)) \o FlattenSeq(Mapped(g, t))
  BY <1>1, <1>5, FlattenMappedConcat DEF st
<1>8. FlattenSeq(Mapped(h, st)) = FlattenSeq(Mapped(h, s)) \o FlattenSeq(Mapped(h, t))
  BY <1>1, <1>6, FlattenMappedConcat DEF st
<1>9. ASSUME NEW u \in Seq(M)
      PROVE  AllTurns(style, u) = Mapped(g, u) /\ SpokenOf(style, u) = Mapped(h, u)
  <2>1. \A i \in DOMAIN u : u[i] \in M
    OBVIOUS
  <2>2. \A i \in DOMAIN u : (IF u[i].role = "system" THEN <<>> ELSE MessageTurns(style, u[i])) = h[u[i]]
    BY <1>3, <2>1
  <2>3. AllTurns(style, u) = Mapped(g, u)
    BY <1>3, <2>1 DEF AllTurns, Mapped
  <2> QED
    BY <2>2, <2>3 DEF SpokenOf, Mapped
<1>10. \A i \in DOMAIN st : st[i] \in M
  BY <1>2
<1>11. AllReadable(st)
  BY <1>2, <1>4, <1>10 DEF AllReadable
<1>12. /\ AllTurns(style, st) = Mapped(g, st) /\ SpokenOf(style, st) = Mapped(h, st)
       /\ AllTurns(style, s) = Mapped(g, s) /\ SpokenOf(style, s) = Mapped(h, s)
       /\ AllTurns(style, t) = Mapped(g, t) /\ SpokenOf(style, t) = Mapped(h, t)
  BY <1>1, <1>2, <1>9
<1> QED
  BY <1>11, <1>12, <1>7, <1>8 DEF st

(* Turns and Dialogue by these names. *)
LEMMA Readings ==
    ASSUME NEW style, NEW req
    PROVE  /\ Turns(style, req) = SystemTurns(req) \o FlattenSeq(AllTurns(style, req.messages))
           /\ Dialogue(style, req) = FlattenSeq(SpokenOf(style, req.messages))
  BY DEF Turns, Dialogue, AllTurns, SpokenOf

LEMMA MessagesReadable ==
    ASSUME NEW style, NEW req, WellFormedRequest(style, req)
    PROVE  /\ AllReadable(req.messages)
           /\ \A i \in DOMAIN req.messages : WellFormedMessage(style, req.messages[i])
<1>1. \A i \in DOMAIN req.messages : req.messages[i] \in ToSet(req.messages)
  BY DEF ToSet
<1> QED
  BY <1>1, WellFormedIsReadable DEF WellFormedRequest, AllReadable

(* An OpenAI client's conversation, as a candidate of Anthropic's style is told it. *)
LEMMA ConversationToAnthropic ==
    ASSUME NEW req, WellFormedRequest("openai", req), NEW new, new = OpenAIRequestToAnthropic(req)
    PROVE  /\ Within(Dialogue("anthropic", new), Dialogue("openai", req))
           /\ (/\ \A i \in DOMAIN req.messages : Plain("openai", req.messages[i])
               /\ \A i \in DOMAIN req.messages : req.messages[i].role = "system" => i = 1)
              => Turns("anthropic", new) = Turns("openai", req)
<1> DEFINE messages == req.messages
           c == ConvertedTurns(messages)
           p == AllTurns("openai", messages)
           q == SpokenOf("openai", messages)
<1>1. /\ new.messages = convertMessagesToAnthropic(messages)
      /\ new.system = extractSystemMessage(messages) /\ req.system = Absent
  BY DEF OpenAIRequestToAnthropic, WellFormedRequest
<1>2. /\ AllReadable(messages) /\ IsSequence(messages)
      /\ \A i \in DOMAIN messages : WellFormedMessage("openai", messages[i])
      /\ DOMAIN messages = 1..Len(messages) /\ Len(messages) \in Nat
  BY MessagesReadable, SequenceFacts DEF AllReadable
<1> HIDE DEF messages
<1>3. /\ Pieces(c) /\ Len(c) = Len(messages)
      /\ AllReadable(new.messages) /\ \A i \in DOMAIN new.messages : new.messages[i].role # "system"
      /\ FlattenSeq(AllTurns("anthropic", new.messages)) = FlattenSeq(c)
  BY <1>1, <1>2, ConvertedShape
<1>4. Pieces(p) /\ Len(p) = Len(messages) /\ Pieces(q) /\ Len(q) = Len(messages)
  BY <1>2, TurnsPieces
<1>5. SpokenOf("anthropic", new.messages) = AllTurns("anthropic", new.messages)
  BY <1>3 DEF SpokenOf, AllTurns
<1>6. ASSUME NEW i \in DOMAIN messages
      PROVE  /\ messages[i].role = "system" => c[i] = <<>> /\ q[i] = <<>>
             /\ messages[i].role # "system" =>
                   /\ q[i] = p[i] /\ Within(c[i], p[i])
                   /\ Plain("openai", messages[i]) => c[i] = p[i]
             /\ p[i] = MessageTurns("openai", messages[i])
  <2> DEFINE m == messages[i]
  <2>1. /\ c[i] = IF MessageToAnthropic(m) = <<>> THEN <<>>
                  ELSE MessageTurns("anthropic", MessageToAnthropic(m)[1])
        /\ p[i] = MessageTurns("openai", m)
        /\ q[i] = IF m.role = "system" THEN <<>> ELSE MessageTurns("openai", m)
    BY DEF ConvertedTurns, AllTurns, SpokenOf
  <2>2. Kept(m, MessageToAnthropic(m))
    BY <1>2, MessageKept
  <2> HIDE DEF m, c, p, q
  <2>3. m.role = "system" => c[i] = <<>>
    BY <2>1, <2>2 DEF Kept
  <2>4. m.role # "system" => Within(c[i], p[i]) /\ (Plain("openai", m) => c[i] = p[i])
    BY <2>1, <2>2 DEF Kept, Plain
  <2> QED
    BY <2>1, <2>3, <2>4 DEF m
<1> HIDE DEF c, p, q
<1>7. Within(Dialogue("anthropic", new), Dialogue("openai", req))
  <2>1. \A i \in 1..Len(c) : Within(c[i], q[i])
    <3>1. Within(<<>>, <<>>)
      BY FewInSequence, WithinItself
    <3> QED
      BY <1>2, <1>3, <1>6, <3>1
  <2>2. Within(FlattenSeq(c), FlattenSeq(q))
    BY <1>3, <1>4, <2>1, WithinPieces
  <2>3. Dialogue("anthropic", new) = FlattenSeq(c) /\ Dialogue("openai", req) = FlattenSeq(q)
    BY <1>3, <1>5, Readings DEF q, messages
  <2> QED
    BY <2>2, <2>3
<1>8. ASSUME \A i \in DOMAIN messages : Plain("openai", messages[i]),
             \A i \in DOMAIN messages : messages[i].role = "system" => i = 1
      PROVE  Turns("anthropic", new) = Turns("openai", req)
  <2>1. /\ Turns("anthropic", new) = SystemTurns(new) \o FlattenSeq(c)
        /\ Turns("openai", req) = SystemTurns(req) \o FlattenSeq(p)
    BY <1>3, Readings DEF p, messages
  <2>2. SystemTurns(req) = <<>>
    BY <1>1 DEF SystemTurns
  <2>3. <<>> \o FlattenSeq(p) = FlattenSeq(p)
    BY <1>4, FlattenIsSequence, SequenceFacts
  <2>4. SystemTurns(new) \o FlattenSeq(c) = FlattenSeq(p)
    <3> DEFINE I == {i \in 1..Len(messages) : messages[i].role = "system" /\ IsText(messages[i].content)}
    <3>1. new.system = IF I = {} \/ ~Says(messages[Min(I)].content) THEN Absent
                       ELSE messages[Min(I)].content
      <4>1. SelectInSeq(messages, LAMBDA m : m.role = "system" /\ IsText(m.content)) =
                IF I # {} THEN Min(I) ELSE 0
        BY DEF SelectInSeq
      <4>2. I # {} => Min(I) \in I
        BY MinIsLeast
      <4>3. I # {} => Min(I) # 0
        BY <4>2
      <4> QED
        BY <1>1, <4>1, <4>3 DEF extractSystemMessage
    <3>2. CASE \E i \in DOMAIN messages : messages[i].role = "system"
      <4> DEFINE m == messages[1]
                 turn == [who |-> "system", what |-> m.content.text]
                 said == IF Says(m.content) THEN <<turn>> ELSE <<>>
      <4>1. 1 \in DOMAIN messages /\ m.role = "system" /\ Len(messages) # 0
        BY <1>2, <1>8, <3>2
      <4>2. m.toolCalls = <<>> /\ m.content # Absent /\ Readable(m) /\ IsText(m.content)
        BY <1>2, <1>8, <4>1, WellFormedIsReadable DEF WellFormedMessage, WellFormedContent, Plain
      <4>3. I = {1}
        BY <1>2, <1>8, <4>1, <4>2
      <4>4. Min(I) = 1
        BY <4>3, MinIsLeast
      <4>5. SystemTurns(new) = said
        <5>1. new.system = IF Says(m.content) THEN m.content ELSE Absent
          BY <3>1, <4>3, <4>4
        <5> HIDE DEF m
        <5> QED
          BY <4>2, <5>1 DEF SystemTurns
      <4>6. p[1] = said
        <5>1. p[1] = Spoken("openai", m)
          BY <1>6, <4>1, <4>2, TurnsShape
        <5>2. m.content.form # "blocks" /\ m.role = "system"
          BY <4>1, <4>2 DEF IsText
        <5> HIDE DEF m
        <5>3. CASE Says(m.content)
          BY <5>1, <5>2, <5>3 DEF Spoken
        <5>4. CASE ~Says(m.content)
          BY <5>1, <5>2, <5>4 DEF Spoken
        <5> QED
          BY <5>3, <5>4
      <4>7. c[1] = <<>> /\ \A i \in 2..Len(p) : p[i] = c[i]
        BY <1>2, <1>4, <1>6, <1>8, <4>1
      <4> HIDE DEF said, m, turn, I
      <4>8. Len(p) = Len(c) /\ Len(p) # 0
        BY <1>3, <1>4, <4>1
      <4>9. FlattenSeq(p) = p[1] \o FlattenSeq(c)
        BY <1>3, <1>4, <4>7, <4>8, FlattenFirst
      <4> QED
        BY <4>5, <4>6, <4>9
    <3>3. CASE \A i \in DOMAIN messages : messages[i].role # "system"
      <4>1. I = {}
        BY <1>2, <3>3
      <4>2. SystemTurns(new) = <<>>
        BY <3>1, <4>1 DEF SystemTurns
      <4>3. \A i \in 1..Len(p) : c[i] = p[i]
        BY <1>2, <1>4, <1>6, <1>8, <3>3
      <4>4. c = p
        BY <1>3, <1>4, <4>3, PiecesEqual
      <4> QED
        BY <2>3, <4>2, <4>4
    <3> QED
      BY <3>2, <3>3
  <2> QED
    BY <2>1, <2>2, <2>3, <2>4
<1> QED
  BY <1>7, <1>8 DEF messages

(* An Anthropic client's conversation, as an OpenAI candidate is told it. *)
LEMMA ConversationToOpenAI ==
    ASSUME NEW req, WellFormedRequest("anthropic", req), NEW new, new = AnthropicRequestToOpenAI(req)
    PROVE  /\ Within(Dialogue("openai", new), Dialogue("anthropic", req))
           /\ (/\ \A i \in DOMAIN req.messages : Plain("anthropic", req.messages[i])
               /\ req.system = Absent \/ IsText(req.system))
              => Turns("openai", new) = Turns("anthropic", req)
<1> DEFINE messages == req.messages
           s == systemToOpenAI(req.system)
           t == convertMessagesToOpenAI(messages)
           a == AllTurns("openai", t)
           b == AllTurns("anthropic", messages)
<1>1. new.messages = s \o t /\ new.system = Absent
  BY DEF AnthropicRequestToOpenAI
<1>2. /\ AllReadable(messages) /\ IsSequence(messages)
      /\ \A i \in DOMAIN messages : WellFormedMessage("anthropic", messages[i])
      /\ DOMAIN messages = 1..Len(messages) /\ Len(messages) \in Nat
  BY MessagesReadable, SequenceFacts DEF AllReadable
<1> HIDE DEF messages
<1>3. \A i \in DOMAIN messages : messages[i].role \in {"user", "assistant"}
  BY <1>2 DEF WellFormedMessage
<1>4. /\ DOMAIN t = DOMAIN messages /\ t = [i \in DOMAIN messages |-> t[i]]
      /\ \A i \in DOMAIN messages : t[i] = Message(messages[i].role, contentToOpenAI(messages[i].content))
  BY <1>3 DEF convertMessagesToOpenAI
<1> HIDE DEF t
<1>5. ASSUME NEW i \in DOMAIN messages
      PROVE  /\ Readable(t[i]) /\ t[i].role # "system" /\ messages[i].role # "system"
             /\ Within(MessageTurns("openai", t[i]), MessageTurns("anthropic", messages[i]))
             /\ Plain("anthropic", messages[i]) =>
                    MessageTurns("openai", t[i]) = MessageTurns("anthropic", messages[i])
  BY <1>2, <1>4, MessageToOpenAIKept DEF Plain
<1>6. AllReadable(t) /\ Len(t) = Len(messages)
  <2>1. t \in Seq(ToSet(t)) /\ Len(t) = Len(messages)
    BY <1>2, <1>4, FunctionIsSequence
  <2> QED
    BY <1>4, <1>5, <2>1 DEF AllReadable, IsSequence
<1>7. Pieces(a) /\ Len(a) = Len(messages) /\ Pieces(b) /\ Len(b) = Len(messages)
  BY <1>2, <1>6, TurnsPieces
<1>8. /\ \A i \in DOMAIN messages : /\ a[i] = MessageTurns("openai", t[i])
                                    /\ b[i] = MessageTurns("anthropic", messages[i])
      /\ SpokenOf("openai", t) = a /\ SpokenOf("anthropic", messages) = b
  BY <1>4, <1>5 DEF AllTurns, SpokenOf
<1> HIDE DEF a, b
<1>9. /\ AllReadable(s) /\ FlattenSeq(SpokenOf("openai", s)) = <<>>
      /\ req.system = Absent \/ IsText(req.system) =>
             FlattenSeq(AllTurns("openai", s)) = SystemTurns(req)
  <2>1. CASE req.system # Absent /\ Says(req.system)
    <3> DEFINE m == Message("system", req.system)
               turn == [who |-> "system", what |-> req.system.text]
               said == <<turn>>
    <3>1. s = <<m>>
      BY <2>1 DEF systemToOpenAI
    <3>2. m.role = "system" /\ m.content = req.system /\ m.toolCalls = <<>>
      BY DEF Message
    <3> HIDE DEF m, s
    <3>3. Readable(m)
      BY <2>1, <3>2, FewInSequence DEF Readable, Says, IsText
    <3>4. IsSequence(s) /\ DOMAIN s = 1..1 /\ s[1] = m /\ IsSequence(said) /\ IsSequence(<<>>)
      BY <3>1, FewInSequence
    <3>5. MessageTurns("openai", m) = said
      <4>1. MessageTurns("openai", m) = Spoken("openai", m)
        BY <3>2, <3>3, TurnsShape
      <4> QED
        BY <2>1, <3>2, <4>1 DEF Spoken, Says, IsText
    <3>6. SystemTurns(req) = said
      BY <2>1 DEF SystemTurns
    <3> HIDE DEF said
    <3>7. AllTurns("openai", s) = <<said>> /\ SpokenOf("openai", s) = << <<>> >>
      <4>1. AllTurns("openai", s) = <<said>>
        BY <3>4, <3>5 DEF AllTurns
      <4>2. SpokenOf("openai", s) = << <<>> >>
        BY <3>2, <3>4 DEF SpokenOf
      <4> QED
        BY <4>1, <4>2
    <3>8. FlattenSeq(<<said>>) = said /\ FlattenSeq(<< <<>> >>) = <<>>
      BY <3>4, FlattenFew DEF IsSequence
    <3>9. AllReadable(s)
      BY <3>3, <3>4 DEF AllReadable
    <3> QED
      BY <3>6, <3>7, <3>8, <3>9
  <2>2. CASE ~(req.system # Absent /\ Says(req.system))
    <3>1. s = <<>> /\ SystemTurns(req) = <<>>
      BY <2>2 DEF systemToOpenAI, SystemTurns
    <3>2. AllTurns("openai", <<>>) = <<>> /\ SpokenOf("openai", <<>>) = <<>>
      BY FewInSequence DEF AllTurns, SpokenOf
    <3>3. FlattenSeq(<<>>) = <<>>
      BY FlattenFew, FewInSequence DEF IsSequence
    <3>4. AllReadable(<<>>)
      BY FewInSequence DEF AllReadable
    <3> QED
      BY <3>1, <3>2, <3>3, <3>4
  <2> QED
    BY <2>1, <2>2
<1> HIDE DEF s
<1>10. /\ FlattenSeq(AllTurns("openai", new.messages)) = FlattenSeq(AllTurns("openai", s)) \o FlattenSeq(a)
       /\ FlattenSeq(SpokenOf("openai", new.messages)) = FlattenSeq(a)
  <2>1. IsSequence(FlattenSeq(a))
    BY <1>7, FlattenIsSequence
  <2>2. <<>> \o FlattenSeq(a) = FlattenSeq(a)
    BY <2>1, SequenceFacts
  <2>3. /\ FlattenSeq(AllTurns("openai", s \o t)) =
               FlattenSeq(AllTurns("openai", s)) \o FlattenSeq(AllTurns("openai", t))
        /\ FlattenSeq(SpokenOf("openai", s \o t)) =
               FlattenSeq(SpokenOf("openai", s)) \o FlattenSeq(SpokenOf("openai", t))
    BY <1>6, <1>9, TurnsConcat
  <2>4. AllTurns("openai", t) = a
    BY DEF a
  <2> QED
    BY <1>1, <1>8, <1>9, <2>2, <2>3, <2>4
<1>11. Within(Dialogue("openai", new), Dialogue("anthropic", req))
  <2>1. Within(FlattenSeq(a), FlattenSeq(b))
    <3>1. \A i \in 1..Len(a) : Within(a[i], b[i])
      BY <1>2, <1>5, <1>7, <1>8
    <3> QED
      BY <1>7, <3>1, WithinPieces
  <2>2. Dialogue("openai", new) = FlattenSeq(a) /\ Dialogue("anthropic", req) = FlattenSeq(b)
    BY <1>8, <1>10, Readings DEF messages
  <2> QED
    BY <2>1, <2>2
<1>12. ASSUME \A i \in DOMAIN messages : Plain("anthropic", messages[i]),
              req.system = Absent \/ IsText(req.system)
       PROVE  Turns("openai", new) = Turns("anthropic", req)
  <2>1. a = b
    <3>1. \A i \in 1..Len(a) : a[i] = b[i]
      BY <1>2, <1>5, <1>7, <1>8, <1>12
    <3> QED
      BY <1>7, <3>1, PiecesEqual
  <2> DEFINE said == SystemTurns(req)
             whole == said \o FlattenSeq(a)
  <2>2. FlattenSeq(AllTurns("openai", new.messages)) = whole
    BY <1>9, <1>10, <1>12
  <2>3. IsSequence(whole)
    <3>1. \E x : said \in {<<x>>, <<>>}
      BY DEF SystemTurns
    <3>2. IsSequence(said) /\ IsSequence(FlattenSeq(a))
      BY <1>7, <3>1, FewInSequence, FlattenIsSequence
    <3> QED
      BY <3>2, ConcatIsSequence
  <2>4. SystemTurns(new) = <<>>
    BY <1>1 DEF SystemTurns
  <2>5. Turns("openai", new) = <<>> \o whole
    BY <2>2, <2>4, Readings
  <2>6. Turns("anthropic", req) = whole
    BY <2>1, Readings DEF b, messages
  <2> HIDE DEF whole
  <2> QED
    BY <2>3, <2>5, <2>6, SequenceFacts
<1> QED
  BY <1>11, <1>12 DEF messages

(* What a client says is within what it says. *)
LEMMA ConversationAsItIs ==
    ASSUME NEW style, NEW req, WellFormedRequest(style, req)
    PROVE  Within(Dialogue(style, req), Dialogue(style, req))
<1>1. Pieces(SpokenOf(style, req.messages))
  BY MessagesReadable, TurnsPieces
<1>2. IsSequence(Dialogue(style, req))
  BY <1>1, FlattenIsSequence, Readings
<1> QED
  BY <1>2, SequenceFacts, WithinItself

(* Whichever candidates failed before, the one in turn is told the client's own *)
(* conversation, nothing of it added or moved, and nothing lost of a plain one:  *)
(* the message conversions of transformer.go, always applied to the original.    *)
THEOREM ConversationSurvives == Spec => []ConversationKept
<1>1. RequestInv => ConversationKept
  <2> SUFFICES ASSUME RequestInv, phase = "waiting", clientStyle = in.style
               PROVE  /\ Within(Dialogue(provider, sent), Dialogue(in.style, in.body))
                      /\ PlainRequest => Turns(provider, sent) = Turns(in.style, in.body)
    BY DEF ConversationKept
  <2>1. /\ in.style \in Style /\ WellFormedRequest(in.style, in.body)
        /\ provider \in Style /\ sent = TransformRequest(in.body, in.style, provider)
    BY InputFacts, ProviderType DEF RequestInv
  <2>2. CASE in.style = "openai" /\ provider = "anthropic"
    <3>1. sent = OpenAIRequestToAnthropic(in.body)
      BY <2>1, <2>2 DEF TransformRequest
    <3> QED
      BY <2>1, <2>2, <3>1, ConversationToAnthropic DEF PlainRequest, SystemFirst
  <2>3. CASE in.style = "anthropic" /\ provider = "openai"
    <3>1. sent = AnthropicRequestToOpenAI(in.body)
      BY <2>1, <2>3 DEF TransformRequest
    <3> QED
      BY <2>1, <2>3, <3>1, ConversationToOpenAI DEF PlainRequest, SystemFirst
  <2>4. CASE in.style = provider
    <3>1. sent = in.body
      BY <2>1, <2>4 DEF TransformRequest, Style
    <3> QED
      BY <2>1, <2>4, <3>1, ConversationAsItIs
  <2> QED
    BY <2>1, <2>2, <2>3, <2>4 DEF Style
<1> QED
  BY <1>1, RequestInductive, PTL

=============================================================================
