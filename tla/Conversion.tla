------------------------------ MODULE Conversion ------------------------------
(***************************************************************************)
(* internal/service/transformer.go and apistyle.go, and the conversion of  *)
(* single stream events in the two handlers, as operators over bodies.     *)
(*                                                                         *)
(* A body is what its JSON says, with Absent for a field that is missing:  *)
(*   request   messages, system, limit (max_tokens), stop, stopSequences,  *)
(*             tools, choice (tool_choice)                                 *)
(*   message   role, content, toolCalls, answers (tool_call_id)            *)
(*   content   Text(t), or Blocks(sequence), or Null                       *)
(*   answer    content (text as a sequence of words), toolCalls, finish    *)
(*             (the stop reason), usage; or an error; or bytes, which do   *)
(*             not parse because they are compressed or cut                *)
(*   stream    one line after the other: an event's name, or its data      *)
(* Fields of one style are Absent in the other.  Parameters that both      *)
(* styles name alike (temperature, top_p, stream) are left out, and so is  *)
(* the model's name: the handlers replace it after every conversion.       *)
(***************************************************************************)
EXTENDS SequencesExt

CONSTANTS Absent, DefaultLimit      \* DefaultLimit: the 4096 of max_tokens

Style == {"openai", "anthropic"}

Text(t) == [form |-> "text", text |-> t]
Blocks(bs) == [form |-> "blocks", blocks |-> bs]
Null == [form |-> "null"]

IsText(content) == content.form = "text"
Says(content) == IsText(content) /\ content.text # ""

Message(role, content) ==
    [role |-> role, content |-> content, toolCalls |-> <<>>, answers |-> Absent]

TextBlock(t) == [type |-> "text", text |-> t]
ToolUse(id, function, input) == [type |-> "tool_use", id |-> id, name |-> function, input |-> input]
ToolResult(id, t) == [type |-> "tool_result", id |-> id, text |-> t]

(* parameters is OpenAI's name, schema (input_schema) Anthropic's; function is the *)
(* object in which OpenAI wraps the two.                                            *)
Tool(name, parameters, schema, function) ==
    [name |-> name, parameters |-> parameters, schema |-> schema, function |-> function]

-----------------------------------------------------------------------------
(* OpenAI to Anthropic. *)

(* Images are converted; beside an image every other block is lost. *)
contentToAnthropic(content) ==
    IF content.form # "blocks" THEN content ELSE
    LET images == FlattenSeq([i \in DOMAIN content.blocks |->
                      IF content.blocks[i].type = "image_url"
                      THEN <<[type |-> "image", url |-> content.blocks[i].url]>> ELSE <<>>])
    IN  IF images = <<>> THEN content ELSE Blocks(images)

(* What one message becomes: none, itself, or its Anthropic form.  An empty   *)
(* text beside tool calls is left out; a tool's answer that is not a plain    *)
(* text is lost.                                                              *)
MessageToAnthropic(m) ==
    CASE m.role = "system" -> <<>>
      [] m.role = "assistant" /\ m.toolCalls # <<>> ->
            <<Message("assistant", Blocks(
                (IF Says(m.content) THEN <<TextBlock(m.content.text)>> ELSE <<>>) \o
                [i \in DOMAIN m.toolCalls |->
                    ToolUse(m.toolCalls[i].id, m.toolCalls[i].function.name,
                            m.toolCalls[i].function.arguments)]))>>
      [] m.role = "user" \/ (m.role = "assistant" /\ m.toolCalls = <<>>) ->
            <<Message(m.role, contentToAnthropic(m.content))>>
      [] m.role = "tool" ->
            IF IsText(m.content)
            THEN <<Message("user", Blocks(<<ToolResult(m.answers, m.content.text)>>))>> ELSE <<>>
      [] OTHER -> <<m>>

convertMessagesToAnthropic(messages) ==
    FlattenSeq([i \in DOMAIN messages |-> MessageToAnthropic(messages[i])])

(* A call without a function, such as OpenAI's custom tools have, makes the *)
(* conversion panic.                                                        *)
Panics(messages) ==
    \E i \in DOMAIN messages : \E j \in DOMAIN messages[i].toolCalls :
        messages[i].role = "assistant" /\ messages[i].toolCalls[j].function = Absent

(* The first system message that is a plain text; if it is empty, none. *)
extractSystemMessage(messages) ==
    LET i == SelectInSeq(messages, LAMBDA m : m.role = "system" /\ IsText(m.content))
    IN  IF i = 0 \/ ~Says(messages[i].content) THEN Absent ELSE messages[i].content

(* The name and the schema are looked for beside "function", not in it. *)
convertToolsToAnthropic(tools) ==
    [i \in DOMAIN tools |-> Tool(tools[i].name, Absent, tools[i].parameters, Absent)]

convertToolChoiceToAnthropic(choice) ==
    CASE choice.type = "function" -> [type |-> "tool", name |-> Absent, index |-> choice.name]
      [] choice.type = "string" /\ choice.name \in {"auto", "none"} ->
            [type |-> choice.name, name |-> Absent, index |-> Absent]
      [] OTHER -> choice

stopToAnthropic(stop) ==
    IF stop = Absent \/ ~IsText(stop) THEN stop
    ELSE IF Says(stop) THEN Blocks(<<stop.text>>) ELSE Absent

OpenAIRequestToAnthropic(req) ==
    [messages |-> convertMessagesToAnthropic(req.messages),
     system |-> extractSystemMessage(req.messages),
     limit |-> IF req.limit = Absent THEN DefaultLimit ELSE req.limit,
     stop |-> Absent, stopSequences |-> stopToAnthropic(req.stop),
     tools |-> convertToolsToAnthropic(req.tools),
     choice |-> IF req.choice = Absent THEN Absent ELSE convertToolChoiceToAnthropic(req.choice)]

-----------------------------------------------------------------------------
(* Anthropic to OpenAI. *)

(* It tells four cases apart and returns what it was given in each of them: *)
(* tool_use, tool_result and image blocks stay in Anthropic's form.         *)
contentToOpenAI(content) == content

convertMessagesToOpenAI(messages) ==
    [i \in DOMAIN messages |->
        IF messages[i].role \in {"user", "assistant"}
        THEN Message(messages[i].role, contentToOpenAI(messages[i].content)) ELSE messages[i]]

ForgetsSystem(system) == <<>>   \* mutated systemToOpenAI: no prompt becomes a message

(* Only a system prompt that is a plain text, not an empty one, becomes a message. *)
systemToOpenAI(system) ==
    IF system # Absent /\ Says(system) THEN <<Message("system", system)>> ELSE <<>>

stopToOpenAI(stop) ==
    IF stop = Absent \/ stop = Blocks(<<>>) THEN Absent
    ELSE IF Len(stop.blocks) = 1 THEN Text(stop.blocks[1]) ELSE stop

convertToolsToOpenAI(tools) ==
    [i \in DOMAIN tools |->
        Tool(Absent, Absent, Absent, [name |-> tools[i].name, parameters |-> tools[i].schema])]

(* The name is looked for under "index": a choice in Anthropic's own form is kept. *)
convertToolChoiceToOpenAI(choice) ==
    IF choice.type = "tool" /\ choice.index # Absent
    THEN [type |-> "function", name |-> choice.index] ELSE choice

AnthropicRequestToOpenAI(req) ==
    [messages |-> systemToOpenAI(req.system) \o convertMessagesToOpenAI(req.messages),
     system |-> Absent,
     limit |-> req.limit,
     stop |-> stopToOpenAI(req.stopSequences), stopSequences |-> Absent,
     tools |-> convertToolsToOpenAI(req.tools),
     choice |-> IF req.choice = Absent THEN Absent ELSE convertToolChoiceToOpenAI(req.choice)]

TransformRequest(req, clientStyle, provider) ==
    CASE clientStyle = "openai" /\ provider = "anthropic" -> OpenAIRequestToAnthropic(req)
      [] clientStyle = "anthropic" /\ provider = "openai" -> AnthropicRequestToOpenAI(req)
      [] OTHER -> req

-----------------------------------------------------------------------------
(* Answers. *)

Answer(style, content, toolCalls, finish, usage) ==
    [style |-> style, kind |-> "answer", content |-> content,
     toolCalls |-> toolCalls, finish |-> finish, usage |-> usage]

Error(style, type, code, message, param) ==
    [style |-> style, kind |-> "error", type |-> type, code |-> code,
     message |-> message, param |-> param]

Bytes(style) == [style |-> style, kind |-> "bytes"]

(* The gateway's own errors. *)
FormatError(style, type, message) == Error(style, type, Absent, message, Absent)

(* The text blocks joined; other blocks are lost. *)
extractAnthropicContent(content) ==
    FlattenSeq([i \in DOMAIN content.blocks |->
        IF content.blocks[i].type = "text" THEN content.blocks[i].text ELSE <<>>])

(* Stop reason and usage are passed on under Anthropic's names. *)
AnthropicResponseToOpenAI(a) ==
    Answer("openai", Text(extractAnthropicContent(a.content)), <<>>, a.finish, a.usage)

extractFinishReason(finish) ==
    CASE finish \in {Absent, "stop", "content_filter"} -> "end_turn"
      [] finish = "length" -> "max_tokens"
      [] finish \in {"tool_calls", "function_call"} -> "tool_use"
      [] OTHER -> finish

(* One text block, empty when there is no text; tool calls are lost. *)
OpenAIResponseToAnthropic(a) ==
    Answer("anthropic", Blocks(<<TextBlock(IF IsText(a.content) THEN a.content.text ELSE <<>>)>>),
           <<>>, extractFinishReason(a.finish),
           IF a.usage = Absent THEN Absent ELSE [a.usage EXCEPT !.style = "anthropic"])

TransformAnthropicErrorToOpenAI(e) == Error("openai", e.type, e.type, e.message, e.param)

TransformOpenAIErrorToAnthropic(e) ==
    Error("anthropic", IF e.code # Absent THEN e.code ELSE e.type, Absent, e.message, e.param)

(* What does not parse is passed on as it is. *)
TransformResponse(body, clientStyle, provider) ==
    IF clientStyle = provider \/ body.kind = "bytes" THEN body
    ELSE IF clientStyle = "openai"
    THEN IF body.kind = "error" THEN TransformAnthropicErrorToOpenAI(body)
                                ELSE AnthropicResponseToOpenAI(body)
    ELSE IF body.kind = "error" THEN TransformOpenAIErrorToAnthropic(body)
                                ELSE OpenAIResponseToAnthropic(body)

-----------------------------------------------------------------------------
(* Stream lines.  A chunk is OpenAI's event; quoted: its text is a JSON string. *)

EventLine(name) == [line |-> "event", name |-> name]
DataLine(type, words, finish) ==
    [line |-> "data", type |-> type, words |-> words, finish |-> finish, quoted |-> TRUE]

Done == DataLine("[DONE]", <<>>, Absent)

(* Only text deltas and the last usage become chunks, the latter as "stop"     *)
(* whatever its reason; every other event of Anthropic's is passed on as it is. *)
convertAnthropicToOpenAIStream(data) ==
    CASE data.type = "content_block_delta" /\ data.words # <<>> ->
            DataLine("chunk", data.words, Absent)
      [] data.type = "message_delta" -> DataLine("chunk", <<>>, "stop")
      [] OTHER -> data

(* The two lines of a converted chunk, or the chunk as it is.  escapeJSONString *)
(* strips the quotes that the text needs.                                        *)
convertOpenAIStream(data) ==
    CASE data.type = "chunk" /\ data.words # <<>> ->
            <<EventLine("content_block_delta"),
              [DataLine("content_block_delta", data.words, Absent) EXCEPT !.quoted = FALSE]>>
      [] data.type = "chunk" /\ data.words = <<>> /\ data.finish = "stop" ->
            <<EventLine("message_delta"), DataLine("message_delta", <<>>, "end_turn")>>
      [] OTHER -> <<data>>

(* What the client is sent for one line of its upstream. *)
Relayed(line, clientStyle, provider) ==
    IF line.line = "event" \/ clientStyle = provider THEN <<line>>
    ELSE IF clientStyle = "openai" THEN <<convertAnthropicToOpenAIStream(line)>>
    ELSE convertOpenAIStream(line)

-----------------------------------------------------------------------------
(* DetectAPIStyle.  It is asked about the model "auto" only, so that neither the *)
(* model's prefix nor tools and roles, all of which end in "openai", matter.     *)
DetectAPIStyle(in) ==
    IF /\ in.endpoint = "anthropic" /\ in.key # "Bearer sk-"
       /\ \/ in.key = "x-api-key sk-ant-"
          \/ in.body.limit # Absent \/ in.body.stopSequences # Absent
    THEN "anthropic" ELSE "openai"
=============================================================================
