------------------------------ MODULE MCService -----------------------------
(* What serves the Satori clients, in scenarios; the beginning of a behaviour *)
(* chooses one.  "logins" to "requests" run the event processor and the HTTP *)
(* API together, with some of their handlers: every one at once would be     *)
(* beyond a small instance.  The others run a component that stands alone,   *)
(* while the rest stays where it is.                                         *)
EXTENDS SatoriApi, MessageCreate, MessageStore, ConfigFile, EventQueue

VARIABLE scenario

aloneVars == <<createVars, storeVars, configVars, vars>>
serviceVars == <<scenario, processorVars, apiVars, aloneVars>>

ServiceInit ==
  /\ scenario \in {"logins", "events", "answers", "chats", "requests",
                    "create", "pages", "config", "queue"}
  /\ ApiInit /\ CreateInit /\ StoreInit /\ ConfigInit /\ Init

(* logins: READYs and errors.  events: two events of any kind.  answers and  *)
(* chats: messages and the requests that answer them.  requests: one of any  *)
(* kind with any flaw.                                                       *)
Private == {"C2CMessage", "GroupATMessage", "GroupDelbot", "DirectMessage"}

SlotsOf ==
  [logins |-> WebSocketHandlers({"DEFAULT"}) \ {"Plain"},
   events |-> WebSocketHandlers(DOMAIN HandlersByName) \cup WebHookHandlers,
   answers |-> Private, chats |-> Private]

JobsOf == [logins |-> Jobs, events |-> {1, 2}, answers |-> {1, 2}, chats |-> {1}]
CallsOf == [answers |-> {1}, chats |-> {1, 2}, requests |-> {1}]

Starts(j) ==
  /\ scenario \in DOMAIN JobsOf /\ j \in JobsOf[scenario]
  /\ \A k \in Jobs : k < j => jobs[k].slot # "none"
  /\ \E slot \in SlotsOf[scenario] : StartJob(j, slot)
  /\ UNCHANGED apiVars

Asks(c) ==
  /\ scenario \in DOMAIN CallsOf /\ c \in CallsOf[scenario]
  /\ \A b \in Calls : b < c => calls[b].pc # "none"
  /\ \E platform \in Platforms, about \in Subjects :
       \/ /\ scenario = "requests"
          /\ \E method \in Methods, flaw \in Flaws :
               Arrive(c, method, platform, about, 1, flaw)
       \/ /\ scenario \in {"answers", "chats"}
          /\ platform = "qqguild" <=> about \in DirectChannels
          /\ \/ about # "other" /\ Arrive(c, "message.create", platform, about, 1, "none")
             \/ Arrive(c, "user.channel.create", platform, about, 1, "none")
             \/ \E j \in JobsOf[scenario] :
                  /\ about = jobs[j].about
                  /\ Arrive(c, "message.get", platform, about, j, "none")

BridgeNext ==
  /\ \/ \E j \in Jobs : Starts(j) \/ (JobStep(j) /\ UNCHANGED apiVars)
     \/ \E c \in Calls : Asks(c) \/ CallStep(c)
  /\ UNCHANGED aloneVars
-----------------------------------------------------------------------------
(* Channel 1's ID continues channel 2's.                                     *)
MCLonger == {<<2, 1>>}

(* An image; media in a container before the next one; an unreadable image   *)
(* before a readable one, and a container behind.                            *)
Plain(kind) == [kind |-> kind, src |-> "none", cache |-> FALSE, children |-> << >>]
Resource(kind, src, cache) == [Plain(kind) EXCEPT !.src = src, !.cache = cache]
Container(children) == [Plain("container") EXCEPT !.children = children]

MCContents ==
  {<<Resource("img", "a", TRUE)>>,
   <<Container(<<Resource("av", "a", TRUE), Plain("passive")>>), Resource("img", "b", FALSE)>>,
   <<Plain("text"), Resource("img", "bad", TRUE), Resource("img", "a", FALSE),
     Container(<<Plain("button"), Resource("img", "b", TRUE)>>)>>}

AloneNext ==
  /\ \/ scenario = "create" /\ CreateNext /\ UNCHANGED <<storeVars, configVars, vars>>
     \/ scenario = "pages" /\ StoreNext /\ UNCHANGED <<createVars, configVars, vars>>
     \/ scenario = "config" /\ ConfigNext /\ UNCHANGED <<createVars, storeVars, vars>>
     \/ scenario = "queue" /\ Next /\ UNCHANGED <<createVars, storeVars, configVars>>
  /\ UNCHANGED <<processorVars, apiVars>>

ServiceSpec == ServiceInit /\ [][(BridgeNext \/ AloneNext) /\ UNCHANGED scenario]_serviceVars
=============================================================================
