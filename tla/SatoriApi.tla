------------------------------ MODULE SatoriApi ------------------------------
(***************************************************************************)
(* The Satori HTTP API (server/httpapi), composed with the event processor *)
(* whose tables it reads and writes: a request passes the middlewares, its  *)
(* method's handler reads a table, calls the platform (at most once, and    *)
(* the answer may be lost) and answers with a status code.  Each request    *)
(* has a goroutine of its own.  Which handler calls what is a table; what   *)
(* goes into an answer is left out.                                         *)
(***************************************************************************)
EXTENDS EventProcessor

CONSTANT Calls    \* the requests of a run

VARIABLES
  calls,      \* the goroutines of the requests
  told        \* history: what clients were told of a subject: <<subject, kind>>

apiVars == <<calls, told>>

(* What may be wrong with a request.  "argument" is a value its handler      *)
(* refuses, "user" a Satori-User-ID that is not the bot's.                   *)
Flaws == {"none", "headers", "token", "platform", "user", "body", "argument"}
Codes == {"200", "400", "401", "403", "404", "500"}

Methods == {
  "message.create", "message.get", "message.delete", "message.list", "message.update",
  "channel.create", "channel.get", "channel.list", "channel.update", "channel.delete",
  "user.channel.create", "guild.get", "guild.list", "guild.member.get",
  "guild.member.list", "guild.member.kick", "guild.member.mute",
  "guild.member.role.set", "guild.member.role.unset", "guild.role.list",
  "guild.role.create", "guild.role.update", "guild.role.delete", "login.get",
  "reaction.create", "reaction.delete", "reaction.list", "upload.create", "unknown",
  "meta", "meta/webhook.create", "meta/webhook.delete", "proxy/internal", "proxy/url"}
-----------------------------------------------------------------------------
(* Plans: to answer at once, or to call the platform first.  After a call    *)
(* "then" is what the handler does with the platform's success, and answer   *)
(* its answer, unless it cannot convert what it was given.                   *)
Answers(code) == [call |-> "none", then |-> "nothing", answer |-> code]
BadRequest == Answers("400")
NotFound == Answers("404")
Sets(what) == [call |-> "none", then |-> what, answer |-> "200"]
CallsPlatform(name) == [call |-> name, then |-> "nothing", answer |-> "200"]

(* The shape of most handlers: a body that is not JSON is refused; without a *)
(* branch for the platform they end in defaultResource.                      *)
PerPlatform(q, onQQGuild, onQQ) ==
  IF q.flaw = "body" THEN BadRequest
  ELSE IF q.platform = "qqguild" THEN onQQGuild ELSE onQQ

GuildOnly(q, name) == PerPlatform(q, CallsPlatform(name), NotFound)

(* A handler that refuses an argument before it calls the platform.          *)
GuildOnlyUnless(q, name, refusal) ==
  PerPlatform(q, IF q.flaw = "argument" THEN refusal ELSE CallsPlatform(name), NotFound)

IsDirect(q) == q.about \in directChannel
TypeOf(q) == IF q.about \in OpenIds THEN openIdType[q.about] ELSE "none"

(* Messages.  Where a message goes the tables decide; on "qq" what is not    *)
(* known as a user is a group.  Content may be beyond conversion.            *)
HandleMessageCreate(q) ==
  IF q.flaw = "argument" THEN Answers("500")
  ELSE PerPlatform(q,
         CallsPlatform(IF IsDirect(q) THEN "PostDirectMessage" ELSE "PostMessage"),
         CallsPlatform(IF TypeOf(q) = "private" THEN "PostC2CMessage" ELSE "PostGroupMessage"))

HandleMessageDelete(q) ==
  GuildOnly(q, IF IsDirect(q) THEN "RetractDMMessage" ELSE "RetractMessage")

(* The message database keeps messages by the type of their channel; one it  *)
(* does not have is an error.                                                *)
GetMessage(q) ==
  <<IF TypeOf(q) = "private" THEN "private" ELSE "group", q.message>> \in saved

HandleMessageGet(q) ==
  PerPlatform(q, CallsPlatform("Message"), Answers(IF GetMessage(q) THEN "200" ELSE "500"))

(* MessageStore has what message.list returns on "qq".                       *)
HandleMessageList(q) ==
  IF q.flaw = "argument" THEN BadRequest
  ELSE PerPlatform(q, CallsPlatform("Messages"), Answers("200"))

HandleMessageUpdate(q) == GuildOnlyUnless(q, "PatchMessage", Answers("500"))

(* Channels and guilds; on "qq" they are read off the table.                 *)
CheckedTooLate(q) ==
  LET plan == GuildOnly(q, "PostChannel")
  IN  IF q.flaw = "argument" /\ plan.call # "none" THEN [plan EXCEPT !.answer = "400"] ELSE plan

HandleChannelCreate(q) == GuildOnlyUnless(q, "PostChannel", BadRequest)
HandleChannelUpdate(q) == GuildOnly(q, "PatchChannel")
HandleChannelDelete(q) == GuildOnly(q, "DeleteChannel")

HandleChannelGet(q) ==
  PerPlatform(q, IF IsDirect(q) THEN Answers("200") ELSE CallsPlatform("Channel"),
                 Answers(IF TypeOf(q) = "none" THEN "500" ELSE "200"))
HandleChannelList(q) == PerPlatform(q, CallsPlatform("Channels"), Answers("200"))
HandleGuildGet(q) ==
  PerPlatform(q, CallsPlatform("Guild"),
                 Answers(IF TypeOf(q) = "group" THEN "200" ELSE "500"))

(* The guilds of a bot are written through nil pointers: a panic, which      *)
(* gin.Recovery answers with 500, whatever the platform returned.            *)
HandleGuildList(q) ==
  PerPlatform(q, [CallsPlatform("MeGuilds") EXCEPT !.answer = "500"], Answers("200"))

HandleUserChannelCreate(q) ==
  PerPlatform(q, [CallsPlatform("CreateDirectMessage") EXCEPT !.then = "direct"],
                 IF TypeOf(q) = "none" THEN Sets("private") ELSE Answers("200"))

(* Members and roles.  A role's colour may be beyond conversion.             *)
HandleGuildMemberGet(q) == GuildOnly(q, "GuildMember")
HandleGuildMemberList(q) == GuildOnly(q, "GuildMembers")
HandleGuildMemberKick(q) == GuildOnly(q, "DeleteGuildMember")
HandleGuildMemberMute(q) == GuildOnly(q, "MemberMute")
HandleGuildMemberRoleSet(q) == GuildOnly(q, "MemberAddRole")
HandleGuildMemberRoleUnset(q) == GuildOnly(q, "MemberDeleteRole")
HandleGuildRoleList(q) == GuildOnly(q, "Roles")
HandleGuildRoleCreate(q) == GuildOnlyUnless(q, "PostRole", Answers("500"))
HandleGuildRoleUpdate(q) == GuildOnlyUnless(q, "PatchRole", Answers("500"))
HandleGuildRoleDelete(q) == GuildOnly(q, "DeleteRole")

(* A reaction that was carried out falls through to defaultResource.         *)
FallingThrough(plan) == IF plan.call = "none" THEN plan ELSE [plan EXCEPT !.answer = "404"]
HandleReactionCreate(q) == FallingThrough(GuildOnly(q, "CreateMessageReaction"))
HandleReactionDelete(q) ==
  FallingThrough(GuildOnlyUnless(q, "DeleteOwnMessageReaction", BadRequest))
HandleReactionList(q) == GuildOnly(q, "GetMessageReactionUsers")

(* login.get takes no body and knows every platform.                         *)
HandleLoginGet(q) == CallsPlatform("Me")

(* The header the middleware demands has no boundary, so that there is no    *)
(* form to read.                                                             *)
HandleUploadCreate(q) == BadRequest

(* webhook.create and webhook.delete: SatoriServer has what they do.  meta   *)
(* itself is registered as "meta" and asked for as "meta/".                  *)
CallMetaAPI(q) ==
  CASE q.method = "meta" -> NotFound
    [] q.flaw \in {"body", "argument"} -> BadRequest
    [] OTHER -> Answers("200")

(* The proxy: no URL may be proxied, and an internal one must be the bot's.  *)
(* A file that is gone is answered with nothing.                             *)
ProxyValidate(q) ==
  CASE q.flaw \in {"body", "argument"} -> BadRequest
    [] q.method = "proxy/internal" /\ q.flaw \in {"platform", "user"} -> NotFound
    [] q.method = "proxy/internal" -> Answers("200")
    [] OTHER -> Answers("403")

(* handlers: what the files register.                                        *)
CallAPI(q) ==
  CASE q.method = "message.create" -> HandleMessageCreate(q)
    [] q.method = "message.get" -> HandleMessageGet(q)
    [] q.method = "message.delete" -> HandleMessageDelete(q)
    [] q.method = "message.list" -> HandleMessageList(q)
    [] q.method = "message.update" -> HandleMessageUpdate(q)
    [] q.method = "channel.create" -> HandleChannelCreate(q)
    [] q.method = "channel.get" -> HandleChannelGet(q)
    [] q.method = "channel.list" -> HandleChannelList(q)
    [] q.method = "channel.update" -> HandleChannelUpdate(q)
    [] q.method = "channel.delete" -> HandleChannelDelete(q)
    [] q.method = "user.channel.create" -> HandleUserChannelCreate(q)
    [] q.method = "guild.get" -> HandleGuildGet(q)
    [] q.method = "guild.list" -> HandleGuildList(q)
    [] q.method = "guild.member.get" -> HandleGuildMemberGet(q)
    [] q.method = "guild.member.list" -> HandleGuildMemberList(q)
    [] q.method = "guild.member.kick" -> HandleGuildMemberKick(q)
    [] q.method = "guild.member.mute" -> HandleGuildMemberMute(q)
    [] q.method = "guild.member.role.set" -> HandleGuildMemberRoleSet(q)
    [] q.method = "guild.member.role.unset" -> HandleGuildMemberRoleUnset(q)
    [] q.method = "guild.role.list" -> HandleGuildRoleList(q)
    [] q.method = "guild.role.create" -> HandleGuildRoleCreate(q)
    [] q.method = "guild.role.update" -> HandleGuildRoleUpdate(q)
    [] q.method = "guild.role.delete" -> HandleGuildRoleDelete(q)
    [] q.method = "login.get" -> HandleLoginGet(q)
    [] q.method = "reaction.create" -> HandleReactionCreate(q)
    [] q.method = "reaction.delete" -> HandleReactionDelete(q)
    [] q.method = "reaction.list" -> HandleReactionList(q)
    [] q.method = "upload.create" -> HandleUploadCreate(q)
    [] OTHER -> NotFound

(* The middlewares in their order, and then the handler.  The middleware of  *)
(* the meta routes does not ask for a bot, that of the proxy for nothing.    *)
MetaMethods == {"meta", "meta/webhook.create", "meta/webhook.delete"}
ProxyMethods == {"proxy/internal", "proxy/url"}

HeadersValidate(q) == IF q.flaw = "headers" THEN {BadRequest} ELSE {}
Authenticate(q) == IF q.flaw = "token" THEN {Answers("401")} ELSE {}
BotValidate(q) == IF q.flaw \in {"platform", "user"} THEN {BadRequest} ELSE {}

Plan(q) ==
  IF q.method \in ProxyMethods THEN ProxyValidate(q)
  ELSE LET refusals == HeadersValidate(q) \cup Authenticate(q)
                         \cup (IF q.method \in MetaMethods THEN {} ELSE BotValidate(q))
       IN  IF refusals # {} THEN CHOOSE p \in refusals : TRUE
           ELSE IF q.method \in MetaMethods THEN CallMetaAPI(q) ELSE CallAPI(q)
-----------------------------------------------------------------------------
NoCall == [pc |-> "none", method |-> "unknown", platform |-> "qq", about |-> "other",
           message |-> CHOOSE j \in Jobs : TRUE, flaw |-> "none", knew |-> {},
           plan |-> NotFound, called |-> FALSE, answer |-> "none"]

ApiInit ==
  /\ ProcessorInit
  /\ calls = [c \in Calls |-> NoCall] /\ told = {}

ApiTypeOK ==
  /\ ProcessorTypeOK
  /\ \A c \in Calls : /\ calls[c].pc \in {"none", "plan", "call", "finish", "answered"}
                      /\ calls[c].method \in Methods /\ calls[c].flaw \in Flaws
                      /\ calls[c].answer \in Codes \cup {"none"}
                      /\ calls[c].called \in BOOLEAN

(* What a client knows that has every event and every answer so far: private *)
(* chats and direct channels, and which job's message is in the database.    *)
Said(slots) == {jobs[e.job].about : e \in {d \in sent : jobs[d.job].slot \in slots}}

Knows(about, message) ==
  {kind \in {"private", "direct"} :
     \/ <<about, kind>> \in told
     \/ about \in Said({IF kind = "private" THEN "C2CMessage" ELSE "DirectMessage"})}
  \cup {"stored" : e \in {d \in sent : /\ d.job = message /\ message \notin unsaved
                         /\ jobs[message].slot \in {"C2CMessage", "GroupATMessage"}
                         /\ jobs[message].about = about}}

(* A client sends a request about a subject, or about a job's message.  It   *)
(* asks for a chat with a user only, whose ID it knows from groups'.         *)
Arrive(c, method, platform, about, message, flaw) ==
  /\ calls[c].pc = "none"
  /\ method = "user.channel.create" =>
       about \in (IF platform = "qq" THEN Users ELSE DirectChannels)
  /\ calls' = [calls EXCEPT ![c] =
       [NoCall EXCEPT !.pc = "plan", !.method = method, !.platform = platform,
        !.about = about, !.message = message, !.flaw = flaw,
        !.knew = Knows(about, message)]]
  /\ UNCHANGED <<processorVars, told>>

(* Up to the point where the handler waits for the platform, or answers.     *)
Decide(c) ==
  /\ calls[c].pc = "plan"
  /\ LET plan == Plan(calls[c])
     IN  calls' = [calls EXCEPT ![c].plan = plan,
           ![c].pc = IF plan.call # "none" THEN "call"
                     ELSE IF plan.then # "nothing" THEN "finish" ELSE "answered",
           ![c].answer = IF plan.call = "none" /\ plan.then = "nothing" THEN plan.answer
                         ELSE "none"]
  /\ UNCHANGED <<processorVars, told>>

(* One request to the OpenAPI: carried out or not, and heard of or not.      *)
CallPlatform(c) ==
  /\ calls[c].pc = "call"
  /\ \/ \E done \in BOOLEAN :
           calls' = [calls EXCEPT ![c].pc = "answered", ![c].answer = "500", ![c].called = done]
     \/ calls' = [calls EXCEPT ![c].pc = "finish", ![c].called = TRUE]
  /\ UNCHANGED <<processorVars, told>>

(* The handler goes on: SetOpenIdType and SetDirectChannel; what the         *)
(* platform returned may be beyond conversion all the same.                  *)
Finish(c) ==
  LET q == calls[c]
  IN  /\ q.pc = "finish"
      /\ openIdType' = IF q.plan.then = "private"
                       THEN [openIdType EXCEPT ![q.about] = "private"] ELSE openIdType
      /\ directChannel' = IF q.plan.then = "direct" THEN directChannel \cup {q.about}
                          ELSE directChannel
      /\ \E code \in {q.plan.answer} \cup (IF q.plan.then = "nothing" THEN {"500"} ELSE {}) :
           calls' = [calls EXCEPT ![c].pc = "answered", ![c].answer = code]
      /\ told' = IF q.plan.then = "nothing" THEN told
                 ELSE told \cup {<<q.about, q.plan.then>>}
      /\ UNCHANGED <<jobs, count, status, saved, unsaved, sent>>

CallStep(c) == Decide(c) \/ CallPlatform(c) \/ Finish(c)

Asked(c) ==
  \E method \in Methods, platform \in Platforms, about \in Subjects, message \in Jobs,
     flaw \in Flaws : Arrive(c, method, platform, about, message, flaw)

ApiNext ==
  \/ \E j \in Jobs : (\E slot \in Slots : StartJob(j, slot)) /\ UNCHANGED apiVars
  \/ \E j \in Jobs : JobStep(j) /\ UNCHANGED apiVars
  \/ \E c \in Calls : Asked(c) \/ CallStep(c)

ApiSpec == ApiInit /\ [][ApiNext]_<<processorVars, apiVars>>
-----------------------------------------------------------------------------
(* A client that was told of a private chat, by an event or by              *)
(* user.channel.create, reaches it with message.create: on "qq" the message *)
(* goes to the user and not to a group of that ID, on "qqguild" to the      *)
(* direct channel's guild.  The tables are written before the event is sent *)
(* and nothing in between takes the entry back.                             *)
AnswerFindsChannel ==
  \A c \in Calls :
    LET q == calls[c]
    IN  q.method = "message.create" /\ q.pc \notin {"none", "plan"} /\ q.flaw = "none" =>
          /\ q.platform = "qq" /\ "private" \in q.knew => q.plan.call = "PostC2CMessage"
          /\ q.platform = "qq" /\ q.about \in Groups => q.plan.call = "PostGroupMessage"
          /\ q.platform = "qqguild" /\ "direct" \in q.knew => q.plan.call = "PostDirectMessage"

(* message.get finds the message of every message-created event a client    *)
(* has received, under the type the table gives its channel at that time,   *)
(* whether the bot has left the group since or not, unless storing failed.  *)
AnswerFindsMessage ==
  \A c \in Calls :
    LET q == calls[c]
    IN  q.method = "message.get" /\ q.platform = "qq" /\ q.pc = "answered"
        /\ q.flaw = "none" /\ "stored" \in q.knew => q.answer = "200"

(* A request that is refused (400 to 404) has changed nothing on the        *)
(* platform, so that a client may correct and repeat it - except for the    *)
(* reactions, which answer 404 once they are carried out.                   *)
RefusedChangesNothing ==
  \A c \in Calls :
    calls[c].answer \in {"400", "401", "403", "404"}
    /\ calls[c].method \notin {"reaction.create", "reaction.delete"} => ~calls[c].called
=============================================================================
