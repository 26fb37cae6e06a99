---------------------------- MODULE MCLlmClient ----------------------------
EXTENDS LlmClient

Model(p, id, mistral, thinkingAsText, ack) ==
    [provider |-> p, id |-> id, mistral |-> mistral,
     thinkingAsText |-> thinkingAsText, ack |-> ack]

(* One model of each provider and one that needs every compat flag. *)
MCModels == { Model("anthropic", "claude", FALSE, FALSE, FALSE),
              Model("openai", "gpt", FALSE, FALSE, FALSE),
              Model("openai", "mistral", TRUE, TRUE, TRUE),
              Model("google", "gemini", FALSE, FALSE, FALSE) }

(* Blocks, as Conversation has them. *)
Block(type) == [type |-> type]
TextBlock(type, n) == [type |-> type, text |-> n]
CallBlock(id) == [type |-> "call", id |-> id]

(* Thought and said, two calls with text between them, and an answer that   *)
(* is empty on another model.                                               *)
MCContents == { <<TextBlock("thinking", 1), TextBlock("text", 2)>>,
                <<CallBlock(1), TextBlock("text", 1), CallBlock(2)>>,
                <<Block("redacted")>> }
=============================================================================
