---------------------------- MODULE MessageCreate ----------------------------
(***************************************************************************)
(* message.create from the inside (server/httpapi/message_create.go): the   *)
(* elements of the content are walked in their order and put into one       *)
(* message; the first image becomes its media.  On "qq" media is uploaded   *)
(* to the platform during the walk, and the handle it returns is kept in    *)
(* the file store for whoever sends the same source to the same target.     *)
(* Text is left out.  Requests run concurrently.                            *)
(***************************************************************************)
EXTENDS Integers, Sequences, FiniteSets, SequencesExt

CONSTANTS
  Messages,     \* the requests of a run
  ChatTargets,  \* channels on "qq": a type and an ID
  GuildTargets, \* channels on "qqguild"
  Sources,      \* what the src of a resource may be
  Unreadable,   \* the sources ParseSrc cannot make anything of
  Contents      \* contents: sequences of ContentElements

(* An element: a resource has a source, a container (a decoration, a         *)
(* paragraph, a message) children.  Containers do not nest here; the code's  *)
(* recursion treats every depth as the first.                                *)
Kinds == {"text", "img", "av", "button", "passive", "container"}
Resources == {"img", "av"}

Targets == ChatTargets \cup GuildTargets

LeafElements == [kind : Kinds \ {"container"}, src : Sources, cache : BOOLEAN, children : {<< >>}]
ContainerElements == [kind : {"container"}, src : Sources, cache : BOOLEAN, children : Seq(LeafElements)]
ContentElements == LeafElements \cup ContainerElements

ElementsOf(content) ==
  ToSet(content) \cup UNION {ToSet(e.children) : e \in ToSet(content)}

ASSUME CreateAssumption ==
  /\ ChatTargets \cap GuildTargets = {} /\ Unreadable \subseteq Sources
  /\ Contents \subseteq Seq(ContentElements) /\ 0 \notin Messages

VARIABLES
  create,     \* the goroutines of the requests
  handles,    \* FileInfoDB: the handle kept for an identifier
  uploaded,   \* history: the uploads whose handle the request was given
  unheard     \* history: those it was given no handle for

createVars == <<create, handles, uploaded, unheard>>

Media == [target : Targets, src : Sources, by : Messages, no : Nat]
NoMedia == [target |-> "none", src |-> "none", by |-> 0, no |-> 0]
NoCreate == [pc |-> "none", target |-> "none", content |-> << >>,
             rest |-> << >>, inner |-> << >>, media |-> NoMedia, passive |-> FALSE,
             keyboard |-> FALSE, posted |-> FALSE]

CreateTypeOK ==
  /\ create \in [Messages ->
       [pc : {"none", "walk", "upload", "save", "200", "500"}, target : Targets \cup {"none"},
        content : Seq(ContentElements), rest : Seq(ContentElements), inner : Seq(LeafElements),
        media : Media \cup {NoMedia}, passive : BOOLEAN, keyboard : BOOLEAN,
        posted : BOOLEAN]]
  /\ uploaded \in SUBSET Media /\ unheard \in SUBSET Media
  /\ DOMAIN handles \subseteq ChatTargets \X Sources
  /\ \A i \in DOMAIN handles : handles[i] \in uploaded \cup {NoMedia}

CreateInit ==
  /\ create = [q \in Messages |-> NoCreate]
  /\ handles = [i \in {} |-> NoMedia] /\ uploaded = {} /\ unheard = {}
-----------------------------------------------------------------------------
Q(q) == create[q]
OnChat(q) == Q(q).target \in ChatTargets
InContainer(q) == Q(q).inner # << >>
Done(q) == Q(q).rest = << >> /\ ~InContainer(q)
Element(q) == Head(IF InContainer(q) THEN Q(q).inner ELSE Q(q).rest)

(* The goroutine is done with the element, and goes on as state says.        *)
Past(q, state) ==
  create' = [create EXCEPT ![q] =
    IF InContainer(q) THEN [state EXCEPT !.inner = Tail(@)] ELSE [state EXCEPT !.rest = Tail(@)]]

Walks(q, kinds) == Q(q).pc = "walk" /\ ~Done(q) /\ Element(q).kind \in kinds

(* convertToMessageToCreate and its V2: the content is parsed.               *)
BeginCreate(q, target, content) ==
  /\ Q(q).pc = "none"
  /\ create' = [create EXCEPT ![q] =
       [NoCreate EXCEPT !.pc = "walk", !.target = target, !.content = content, !.rest = content]]
  /\ UNCHANGED <<handles, uploaded, unheard>>

(* Everything that is no resource.  A button is for "qq" only.               *)
TakeElement(q) ==
  /\ Walks(q, {"text", "button", "passive"})
  /\ Past(q, [Q(q) EXCEPT !.passive = @ \/ Element(q).kind = "passive",
                          !.keyboard = @ \/ (Element(q).kind = "button" /\ OnChat(q))])
  /\ UNCHANGED <<handles, uploaded, unheard>>

(* The recursive call; an error it returns is ignored by its caller.         *)
OpenContainer(q) ==
  /\ Walks(q, {"container"})
  /\ create' = [create EXCEPT ![q].rest = Tail(@), ![q].inner = Element(q).children]
  /\ UNCHANGED <<handles, uploaded, unheard>>

(* One medium a message: the others are passed over.                         *)
HasMediaAtTop(q) == Q(q).media # NoMedia /\ ~InContainer(q)

HasMedia(q) == Q(q).media # NoMedia

(* ParseSrc and ParseSrcToString: a URL, data or a local file, or an error.  *)
Readable(q) == Element(q).src \notin Unreadable

(* On "qqguild" an image is a URL, or a file that FileStore has or saves;    *)
(* whatever fails, the walk goes on.  Audio, video and files are not sent.   *)
TakeImage(q) ==
  /\ ~OnChat(q) /\ Walks(q, Resources)
  /\ \E media \in {Q(q).media} \cup
          (IF HasMedia(q) \/ Element(q).kind # "img" \/ ~Readable(q) THEN {}
           ELSE {[NoMedia EXCEPT !.target = Q(q).target, !.src = Element(q).src, !.by = q]}) :
       Past(q, [Q(q) EXCEPT !.media = media])
  /\ UNCHANGED <<handles, uploaded, unheard>>

(* CalculateFileInfoIdent: of the target and what ParseSrcToString makes of  *)
(* the source; not of the kind of resource, image or file, it is sent as.    *)
IdentOfSource(q) == <<"any", Element(q).src>>

Ident(q) == <<Q(q).target, Element(q).src>>

Cached(q) == Element(q).cache /\ Ident(q) \in DOMAIN handles

(* parseResourceElementInMTCV2 up to the upload: a source that cannot be     *)
(* parsed or converted is passed over.                                       *)
TakeResource(q) ==
  /\ OnChat(q) /\ Walks(q, Resources)
  /\ IF HasMedia(q) \/ ~Readable(q)
     THEN Past(q, Q(q))
     ELSE IF Cached(q) THEN Past(q, [Q(q) EXCEPT !.media = handles[Ident(q)]])
     ELSE Past(q, Q(q)) \/ create' = [create EXCEPT ![q].pc = "upload"]
  /\ UNCHANGED <<handles, uploaded, unheard>>

(* What the platform makes of an upload, numbered in the order they happen.  *)
Given(q) ==
  [target |-> Q(q).target, src |-> Element(q).src, by |-> q,
   no |-> Cardinality(uploaded) + Cardinality(unheard)]

(* An answer without an error.  Its FileInfo may be empty, which is kept and *)
(* set like any other and leaves the message without a medium.               *)
UploadAnswered(q, handle) ==
  IF Element(q).cache
  THEN create' = [create EXCEPT ![q].pc = "save", ![q].media = handle]
  ELSE Past(q, [Q(q) EXCEPT !.pc = "walk", !.media = handle])

(* uploadMedia and uploadMediaPrivate.                                       *)
Upload(q) ==
  /\ Q(q).pc = "upload"
  /\ \/ /\ UploadAnswered(q, Given(q))
        /\ uploaded' = uploaded \cup {Given(q)} /\ UNCHANGED unheard
     \/ /\ UploadAnswered(q, NoMedia)
        /\ unheard' = unheard \cup {Given(q)} /\ UNCHANGED uploaded
  /\ UNCHANGED handles

(* An error ends the walk it happens in: the request's, or that of a         *)
(* container, whose other children are lost.                                 *)
FailedWalk(q) ==
  IF InContainer(q) THEN [Q(q) EXCEPT !.pc = "walk", !.inner = << >>]
  ELSE [Q(q) EXCEPT !.pc = "500"]

(* An error: nothing was uploaded, or only the answer was lost.              *)
UploadFails(q) ==
  /\ Q(q).pc = "upload"
  /\ create' = [create EXCEPT ![q] = FailedWalk(q)]
  /\ unheard' \in {unheard, unheard \cup {Given(q)}}
  /\ UNCHANGED <<handles, uploaded>>

(* SaveFileInfo, for an element that may be cached; an error is logged.      *)
SaveHandle(q) ==
  /\ Q(q).pc = "save"
  /\ \/ UNCHANGED handles
     \/ handles' = [i \in DOMAIN handles \cup {Ident(q)} |->
                      IF i = Ident(q) THEN Q(q).media ELSE handles[i]]
  /\ Past(q, [Q(q) EXCEPT !.pc = "walk"])
  /\ UNCHANGED <<uploaded, unheard>>

(* The message is posted, and the platform's answer may be lost or beyond    *)
(* conversion.                                                               *)
Post(q) ==
  /\ Q(q).pc = "walk" /\ Done(q)
  /\ \E posted \in BOOLEAN, code \in {"200", "500"} :
       /\ code = "200" => posted
       /\ create' = [create EXCEPT ![q].pc = code, ![q].posted = posted]
  /\ UNCHANGED <<handles, uploaded, unheard>>

(* A handle expires: the timer of FileStore.                                 *)
HandleExpires(i) ==
  /\ i \in DOMAIN handles
  /\ handles' = [j \in DOMAIN handles \ {i} |-> handles[j]]
  /\ UNCHANGED <<create, uploaded, unheard>>

CreateNext ==
  \/ \E q \in Messages :
       \/ \E t \in Targets, c \in Contents : BeginCreate(q, t, c)
       \/ TakeElement(q) \/ OpenContainer(q) \/ TakeImage(q) \/ TakeResource(q)
       \/ Upload(q) \/ UploadFails(q) \/ SaveHandle(q) \/ Post(q)
  \/ \E i \in DOMAIN handles : HandleExpires(i)

CreateSpec == CreateInit /\ [][CreateNext]_createVars
-----------------------------------------------------------------------------
(* A message is only ever posted with media of its own: of a source its     *)
(* content has, uploaded for the very user or group it goes to, whether by  *)
(* this request or by another that left the handle in the store.            *)
MediaFits ==
  \A q \in Messages :
    Q(q).posted /\ HasMedia(q) =>
      /\ Q(q).media.target = Q(q).target
      /\ \E e \in ElementsOf(Q(q).content) : e.kind \in Resources /\ e.src = Q(q).media.src

(* A request that was given the handle of an upload posts its message with  *)
(* that and uploads nothing more, at whatever depth its elements stand.     *)
(* (The error of a container's walk is ignored: an upload whose answer was  *)
(* lost in there, or one answered without a handle, may be followed by the  *)
(* upload of a later element and never be posted.)                          *)
UploadsAreUsed ==
  \A u \in uploaded :
    /\ \A v \in uploaded \cup unheard : v.by = u.by => v = u \/ v.no < u.no
    /\ Q(u.by).posted => Q(u.by).media = u
=============================================================================
