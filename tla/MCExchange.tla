------------------------------ MODULE MCExchange ------------------------------
(***************************************************************************)
(* Instances of Exchange: requests with every feature that the conversions *)
(* treat in a way of its own, answers and streams of both styles, and up   *)
(* to two candidates.                                                      *)
(***************************************************************************)
EXTENDS Exchange

Request(messages) ==
    [messages |-> messages, system |-> Absent, limit |-> Absent, stop |-> Absent,
     stopSequences |-> Absent, tools |-> <<>>, choice |-> Absent]

Hello == Message("user", Text("hello"))
Sure == Message("assistant", Text("sure"))
Be(t) == Message("system", Text(t))
Picture == [type |-> "image_url", url |-> "picture"]

Calling(content) == [Message("assistant", content) EXCEPT
    !.toolCalls = <<[id |-> "c1", function |-> [name |-> "search", arguments |-> "x"]],
                    [id |-> "c2", function |-> [name |-> "search", arguments |-> "y"]]>>]
CustomCall == [Message("assistant", Null) EXCEPT !.toolCalls = <<[id |-> "c1", function |-> Absent]>>]
Result(id, content) == [Message("tool", content) EXCEPT !.answers = id]

OpenAITool == Tool(Absent, Absent, Absent, [name |-> "search", parameters |-> "schema"])
OpenAIChoices == {Absent, [type |-> "function", name |-> "search"]}
                 \cup [type : {"string"}, name : {"auto", "required"}]

OpenAITalks ==
    {<<Be("brief"), Hello, Sure, Hello>>,
     <<Hello, Be("brief"), Be("kind")>>,
     <<Be("brief"), Hello, Calling(Text("let me see")), Result("c1", Text("r1")),
       Result("c2", Text("r2")), Sure>>,
     <<Hello, Calling(Null), Result("c1", Blocks(<<TextBlock("r1")>>)), Result("c2", Text("r2"))>>,
     <<Message("user", Blocks(<<TextBlock("look"), Picture>>)), Sure>>,
     <<Be(""), Hello, Calling(Text("")), Result("c1", Text(""))>>,
     <<Hello, Calling(Blocks(<<TextBlock("let me see")>>))>>,
     <<Hello, CustomCall, Result("c1", Text("r1"))>>,
     <<Message("developer", Text("brief")), Message("user", Blocks(<<TextBlock("hello")>>))>>}

OpenAIBodies ==
    {[Request(talk) EXCEPT !.limit = limit, !.stop = stop, !.tools = tools, !.choice = choice] :
        talk \in OpenAITalks, limit \in {Absent, 9},
        stop \in {Absent, Text(""), Text("x"), Blocks(<<"x", "y">>)},
        tools \in {<<>>, <<OpenAITool>>}, choice \in OpenAIChoices}

AnthropicTool == Tool("search", Absent, "schema", Absent)
AnthropicChoices == {Absent, [type |-> "auto", name |-> Absent, index |-> Absent],
                     [type |-> "tool", name |-> "search", index |-> Absent]}

AnthropicTalks ==
    {<<Hello, Sure, Hello>>,
     <<Message("user", Blocks(<<TextBlock("a"), TextBlock("b")>>)), Sure>>,
     <<Hello, Message("assistant", Blocks(<<TextBlock("let me see"), ToolUse("c1", "search", "x")>>)),
       Message("user", Blocks(<<ToolResult("c1", "r1")>>))>>,
     <<Message("user", Blocks(<<[type |-> "image", url |-> "picture"], TextBlock("look")>>))>>}

AnthropicBodies ==
    {[Request(talk) EXCEPT !.system = system, !.limit = 9, !.stopSequences = stops,
                           !.tools = tools, !.choice = choice] :
        talk \in AnthropicTalks, system \in {Absent, Text(""), Text("brief"), Blocks(<<TextBlock("brief")>>)},
        stops \in {Absent, Blocks(<<"x">>), Blocks(<<"x", "y">>)},
        tools \in {<<>>, <<AnthropicTool>>}, choice \in AnthropicChoices}

Keys == {"Bearer sk-", "x-api-key sk-ant-", "x-api-key"}

RequestsOf(style, bodies) ==
    [endpoint : {style}, style : {style}, key : Keys, auto : BOOLEAN, stream : BOOLEAN, body : bodies]

MCInputs == RequestsOf("openai", OpenAIBodies) \cup RequestsOf("anthropic", AnthropicBodies)

MCCandidates == {<<p>> : p \in Style} \cup {<<p, q>> : p, q \in Style}

Usage(style) == [style |-> style, in |-> 1, out |-> 2]

MCAnswers(p) ==
    {Bytes(p)} \cup
    IF p = "openai"
    THEN {Answer(p, Text(<<"w1", "w2">>), <<>>, "stop", Usage(p)),
          Answer(p, Text(<<"w1">>), <<>>, "length", Absent),
          Answer(p, Null, <<"c1">>, "tool_calls", Usage(p)),
          Answer(p, Text(<<>>), <<>>, "content_filter", Usage(p)),
          Error(p, "invalid_request_error", "context_length_exceeded", "too long", "messages"),
          Error(p, "requests", Absent, "slow down", Absent)}
    ELSE {Answer(p, Blocks(<<TextBlock(<<"w1">>), TextBlock(<<"w2">>)>>), <<>>, "end_turn", Usage(p)),
          Answer(p, Blocks(<<TextBlock(<<"w1">>), ToolUse("c1", "search", "x")>>), <<>>, "tool_use", Usage(p)),
          Error(p, "invalid_request_error", Absent, "too long", Absent)}

Named(data) == <<EventLine(data.type), data>>

MCStreams(p) ==
    IF p = "openai"
    THEN {<<DataLine("chunk", <<>>, Absent), DataLine("chunk", <<"w1">>, Absent),
            DataLine("chunk", <<"w2">>, Absent), DataLine("chunk", <<>>, finish), Done>> :
          finish \in {"stop", "length"}}
    ELSE {FlattenSeq(<<Named(DataLine("message_start", <<>>, Absent)),
                       Named(DataLine("content_block_start", <<>>, Absent)),
                       Named(DataLine("content_block_delta", <<"w1">>, Absent)),
                       Named(DataLine("content_block_delta", <<"w2">>, Absent)),
                       Named(DataLine("content_block_stop", <<>>, Absent)),
                       Named(DataLine("message_delta", <<>>, "end_turn")),
                       Named(DataLine("message_stop", <<>>, Absent))>>)}
=============================================================================
