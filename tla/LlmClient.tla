------------------------------ MODULE LlmClient ------------------------------
(***************************************************************************)
(* The client library of internal/ai as the agent loop uses it: the        *)
(* request of a call, made from the conversation (Conversation), and the   *)
(* stream of its answer (ProviderStream).  The halves share no state: the  *)
(* log is not read again while an answer streams, and an answer enters it  *)
(* whole, so a behaviour exercises one half and the other rests.           *)
(***************************************************************************)
EXTENDS ProviderStream

CONSTANTS Models, Contents, StopReasons, MaxLog, MaxTurns, MaxResumes

VARIABLES half, log, turn, stage, todo, model, resumes

Conv == INSTANCE Conversation

conversation == <<log, turn, stage, todo, model, resumes>>
clientVars == <<half, vars, conversation>>

ClientInit ==
    /\ half \in {"conversation", "stream"}
    /\ Init /\ Conv!Init
    /\ half = "conversation" => provider = CHOOSE p \in Providers : TRUE
    /\ half = "stream" => model = CHOOSE m \in Models : TRUE

ClientNext ==
    \/ half = "conversation" /\ Conv!Next /\ UNCHANGED <<half, vars>>
    \/ half = "stream" /\ Next /\ UNCHANGED <<half, conversation>>

StreamStep(A) == half = "stream" /\ A /\ UNCHANGED <<half, conversation>>

(* The fairness of ProviderStream; a conversation owes nothing. *)
ClientSpec ==
    /\ ClientInit /\ [][ClientNext]_clientVars
    /\ WF_clientVars(StreamStep(Client)) /\ WF_clientVars(StreamStep(Consumer))
-----------------------------------------------------------------------------
(* Every tool call of a request has its one result before the next answer   *)
(* of the log, see Conversation: also calls that were never run, on any     *)
(* model.                                                                   *)
CallsAreAnswered == Conv!CallsAreAnswered

(* What was said is in the request and thoughts go to their model only, see *)
(* Conversation: also after crashes and resumes.                            *)
TextsAreKept == Conv!TextsAreKept

(* What 18-agent-loop-rpc.md says of recovery: after a crash ResumeSession  *)
(* takes the log.  The log of a session that was resumed once is refused,   *)
(* for its turns start again.                                               *)
LogCanBeResumed == Conv!LogCanBeResumed
=============================================================================
