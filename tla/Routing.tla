------------------------------- MODULE Routing -------------------------------
(***************************************************************************)
(* From an update of Telegram to the routes that get it: the classifier    *)
(* (telegram/classifier.ts), the samples of a route test                   *)
(* (telegram/sample.ts) and the matcher (router/match.ts).  Everything     *)
(* here is a pure operator; Ingest applies them to the tables.             *)
(***************************************************************************)
EXTENDS Integers, Sequences, FiniteSets

\* The list of shared/src/telegram.ts: its order decides.
TELEGRAM_UPDATE_TYPES ==
    <<"message", "edited_message", "channel_post", "edited_channel_post",
      "business_connection", "business_message", "edited_business_message",
      "deleted_business_messages", "message_reaction", "message_reaction_count",
      "inline_query", "chosen_inline_result", "callback_query", "shipping_query",
      "pre_checkout_query", "purchased_paid_media", "poll", "poll_answer",
      "my_chat_member", "chat_member", "chat_join_request", "chat_boost",
      "removed_chat_boost">>

Known == {TELEGRAM_UPDATE_TYPES[i] : i \in DOMAIN TELEGRAM_UPDATE_TYPES}

isKnownUpdateType(key) == key \in Known

------------------------------------------------------------------------------
(***************************************************************************)
(* An update is its keys but update_id in the order received, and the body *)
(* of each.  A body that is not an object is Scalar, null is Null; an      *)
(* object tells where it carries a chat: by itself, in its message, in the *)
(* message replied to, as sender_chat or as voter_chat.  NoChat stands for *)
(* a place without a chat, or with one that has no id.                     *)
(***************************************************************************)
NoChat == "no chat"
Null   == [kind |-> "null"]
Scalar == [kind |-> "scalar"]

Body(chat, message, replyTo, sender, voter) ==
    [kind |-> "object", chat |-> chat, message |-> message, replyTo |-> replyTo,
     sender |-> sender, voter |-> voter]

PlainBody(chat) == Body(chat, NoChat, NoChat, NoChat, NoChat)

\* The first place that has a chat, in this order.
extractChatId(body) ==
    LET places == <<body.chat, body.message, body.replyTo, body.sender, body.voter>>
        found  == {i \in DOMAIN places : places[i] # NoChat}
    IN  IF found = {} THEN NoChat
        ELSE places[CHOOSE i \in found : \A j \in found : i <= j]

ChatOf(body) == IF body.kind = "object" THEN extractChatId(body) ELSE NoChat

\* The types of the list the update has a body for.
Listed(update) ==
    {i \in DOMAIN TELEGRAM_UPDATE_TYPES :
        \E k \in DOMAIN update : /\ update[k].key = TELEGRAM_UPDATE_TYPES[i]
                                 /\ update[k].body # Null}

BodyOf(update, key) == update[CHOOSE k \in DOMAIN update : update[k].key = key].body

\* An update that is not an object has no keys.  Of an unknown one the first key tells
\* the chat, unless that key is a known type without a body.
classifyUpdate(update) ==
    LET listed == Listed(update)
        type   == TELEGRAM_UPDATE_TYPES[CHOOSE i \in listed : \A j \in listed : i <= j]
    IN  IF listed # {} THEN [eventType |-> type, chatId |-> ChatOf(BodyOf(update, type))]
        ELSE [eventType |-> "unknown",
              chatId |-> IF update = <<>> \/ isKnownUpdateType(update[1].key) THEN NoChat
                         ELSE ChatOf(update[1].body)]

------------------------------------------------------------------------------
\* Samples

SampleChat == "100000001"

\* The types sample.ts has a body of their own for that carries no chat, and those whose
\* chat is in the message they carry.
Chatless    == {"inline_query", "chosen_inline_result", "shipping_query",
                "pre_checkout_query", "poll", "poll_answer"}
WithMessage == {"callback_query"}

\* The body of any other type, listed or not, has the chat itself.
SampleBody(type) ==
    IF type \in Chatless THEN PlainBody(NoChat)
    ELSE IF type \in WithMessage THEN Body(NoChat, SampleChat, NoChat, NoChat, NoChat)
    ELSE PlainBody(SampleChat)

\* gateway_test comes after the type, and is true.
buildSampleUpdate(type) ==
    <<[key |-> IF type \in {"*", "unknown"} THEN "message" ELSE type, body |-> SampleBody(type)],
      [key |-> "gateway_test", body |-> Scalar]>>

\* The type a route test sends: the one asked for if the route takes it, else its first.
TestType(asked, types) ==
    IF asked \in types \/ "*" \in types THEN asked ELSE CHOOSE t \in types : TRUE

------------------------------------------------------------------------------
\* Matching

\* A filter is the set of chats it lists; an empty one lets everything through, and so
\* does the lack of one.
routeMatches(route, destinationEnabled, input) ==
    /\ route.enabled /\ destinationEnabled
    /\ "*" \in route.types \/ input.eventType \in route.types
    /\ route.chats = {} \/ input.chatId \in route.chats

==============================================================================
