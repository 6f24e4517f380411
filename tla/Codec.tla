------------------------------- MODULE Codec -------------------------------
(***************************************************************************)
(* The codecs of a live run (internal/transport/ws_codec.go): what frames  *)
(* an endpoint's message decodes to.  A message is [type] for OpenAI and   *)
(* [parts, complete] for Gemini, where parts counts those with audio; a    *)
(* message that is no JSON is Garbled.                                     *)
(***************************************************************************)
EXTENDS Naturals, Sequences, SequencesExt

Garbled == [type |-> "garbled"]

Decoded(frames, talking) == [ok |-> TRUE, frames |-> frames, talking |-> talking]
Undecodable(talking) == [ok |-> FALSE, frames |-> << >>, talking |-> talking]

OpenAIFrames ==
  [type \in {"response.created", "response.audio.delta", "response.done", "other"} |->
     CASE type = "response.created"     -> <<"turn_start">>
       [] type = "response.audio.delta" -> <<"agent">>
       [] type = "response.done"        -> <<"turn_end">>
       [] OTHER                         -> << >>]
DecodeOpenAI(talking, msg) ==
  IF msg = Garbled THEN Undecodable(talking) ELSE Decoded(OpenAIFrames[msg.type], talking)

(* The first audio of a turn brings the TurnStart with it. *)
GeminiAudio(talking, parts) ==
  (IF parts > 0 /\ ~talking THEN <<"turn_start">> ELSE << >>)
    \o [k \in 1 .. parts |-> "agent"]
(* Mutant: the end of a turn leaves the codec talking. *)
DecodeGeminiTalkingOn(talking, msg) ==
  IF msg = Garbled THEN Undecodable(talking)
  ELSE Decoded(GeminiAudio(talking, msg.parts)
                 \o (IF msg.complete THEN <<"turn_end">> ELSE << >>),
               talking \/ msg.parts > 0)
DecodeGemini(talking, msg) ==
  IF msg = Garbled THEN Undecodable(talking)
  ELSE Decoded(GeminiAudio(talking, msg.parts)
                 \o (IF msg.complete THEN <<"turn_end">> ELSE << >>),
               (talking \/ msg.parts > 0) /\ ~msg.complete)

(* codecFactory: a codec by its name.  OpenAI's keeps no state.            *)
DecodeRecv(codec, talking, msg) ==
  IF codec = "gemini-live" THEN DecodeGemini(talking, msg) ELSE DecodeOpenAI(talking, msg)
=============================================================================
