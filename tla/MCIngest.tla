------------------------------- MODULE MCIngest -------------------------------
(***************************************************************************)
(* Ingest on small instances.                                              *)
(***************************************************************************)
EXTENDS Ingest, TLC

CONSTANTS u1, s1, r1, r2, x1, x2, q1, q2, TheBot

\* A message in a chat, beside a type the list lacks and one without a body; the
\* sample of a callback query.
Contents == [u \in Updates \cup Samples |->
    IF u = u1 THEN <<[key |-> "future_thing", body |-> PlainBody("private")],
                     [key |-> "edited_message", body |-> Null],
                     [key |-> "message", body |-> PlainBody("group")]>>
    ELSE buildSampleUpdate("callback_query")]

Form(enabled, d, types, chats) ==
    [enabled |-> enabled, destination |-> d, types |-> types, chats |-> chats]

\* Everything to the first destination; messages of one chat to the second.
TwoForms   == {Form(TRUE, x1, {"*"}, {}), Form(TRUE, x2, {"message", "poll"}, {"group"})}
==============================================================================
