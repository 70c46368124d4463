---------------------------- MODULE EventDispatch ----------------------------
(***************************************************************************)
(* The event tables of pkg/botgo/event and what the program registers in    *)
(* them: from an event's type to the parser of its data and on to a slot of *)
(* DefaultHandlers.  No state but processedIDs, which the module that runs  *)
(* the dispatcher declares; a handler is named by its slot.                 *)
(***************************************************************************)
EXTENDS FiniteSets

(* eventParseFuncMap, turned round: the event types whose parser calls a     *)
(* slot.                                                                     *)
EventParseFuncMap ==
  [Guild |-> {"GUILD_CREATE", "GUILD_UPDATE", "GUILD_DELETE"},
   Channel |-> {"CHANNEL_CREATE", "CHANNEL_UPDATE", "CHANNEL_DELETE"},
   GuildMember |-> {"GUILD_MEMBER_ADD", "GUILD_MEMBER_UPDATE", "GUILD_MEMBER_REMOVE"},
   Message |-> {"MESSAGE_CREATE"},
   MessageDelete |-> {"MESSAGE_DELETE"},
   MessageReaction |-> {"MESSAGE_REACTION_ADD", "MESSAGE_REACTION_REMOVE"},
   ATMessage |-> {"AT_MESSAGE_CREATE"},
   PublicMessageDelete |-> {"PUBLIC_MESSAGE_DELETE"},
   DirectMessage |-> {"DIRECT_MESSAGE_CREATE"},
   DirectMessageDelete |-> {"DIRECT_MESSAGE_DELETE"},
   Audio |-> {"AUDIO_START", "AUDIO_FINISH", "AUDIO_ON_MIC", "AUDIO_OFF_MIC"},
   MessageAudit |-> {"MESSAGE_AUDIT_PASS", "MESSAGE_AUDIT_REJECT"},
   Thread |-> {"FORUM_THREAD_CREATE", "FORUM_THREAD_UPDATE", "FORUM_THREAD_DELETE"},
   Post |-> {"FORUM_POST_CREATE", "FORUM_POST_DELETE"},
   Reply |-> {"FORUM_REPLY_CREATE", "FORUM_REPLY_DELETE"},
   ForumAudit |-> {"FORUM_PUBLISH_AUDIT_RESULT"},
   Interaction |-> {"INTERACTION_CREATE"},
   GroupATMessage |-> {"GROUP_AT_MESSAGE_CREATE"},
   C2CMessage |-> {"C2C_MESSAGE_CREATE"},
   GroupAddbot |-> {"GROUP_ADD_ROBOT"},
   GroupDelbot |-> {"GROUP_DEL_ROBOT"},
   GroupMsgReject |-> {"GROUP_MSG_REJECT"},
   GroupMsgReceive |-> {"GROUP_MSG_RECEIVE"}]

Slots == DOMAIN EventParseFuncMap \cup {"Ready", "ErrorNotify", "Plain"}
ParsedTypes == UNION {EventParseFuncMap[h] : h \in DOMAIN EventParseFuncMap}

(* The handlers an intent of the configuration registers.                    *)
HandlersByName ==
  [DEFAULT |-> {"Ready", "ErrorNotify", "Plain"},
   GUILDS |-> {"Guild", "Channel"},
   GUILD_MEMBERS |-> {"GuildMember"},
   GUILD_MESSAGES |-> {"Message", "MessageDelete"},
   GUILD_MESSAGE_REACTIONS |-> {"MessageReaction"},
   DIRECT_MESSAGE |-> {"DirectMessage", "DirectMessageDelete"},
   GROUP_AND_C2C_EVENT |-> {"GroupATMessage", "GroupAddbot", "GroupDelbot", "C2CMessage"},
   INTERACTION |-> {"Interaction"},
   MESSAGE_AUDIT |-> {"MessageAudit"},
   FORUMS_EVENT |-> {"Thread", "Post", "Reply", "ForumAudit"},
   AUDIO_ACTION |-> {"Audio"},
   PUBLIC_GUILD_MESSAGES |-> {"ATMessage", "PublicMessageDelete"}]

(* establishWebSocket: a name without handlers is skipped.                   *)
WebSocketHandlers(intents) ==
  UNION {HandlersByName[i] : i \in intents \cap DOMAIN HandlersByName}

(* establishWebHook registers a list of its own.                             *)
WebHookHandlers ==
  Slots \ {"Ready", "Message", "MessageDelete", "MessageReaction",
           "GroupMsgReject", "GroupMsgReceive"}

(* Where ParseAndHandle takes an event: to the slot of its type, to Plain if *)
(* the type has no parser, and nowhere if nothing is registered there.  An   *)
(* event that has a parser never goes to Plain.                              *)
ParseAndHandle(type, registered) ==
  IF type \in ParsedTypes
  THEN {h \in registered \cap DOMAIN EventParseFuncMap : type \in EventParseFuncMap[h]}
  ELSE registered \cap {"Plain"}

(* ParseData: a type's data that cannot be decoded is an error, which the    *)
(* caller in its own goroutine drops; so is the event, then.                 *)
Handled(type, parsed, registered) ==
  IF type \in ParsedTypes /\ ~parsed THEN {} ELSE ParseAndHandle(type, registered)
=============================================================================
