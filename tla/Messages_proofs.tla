--------------------------- MODULE Messages_proofs ---------------------------
(***************************************************************************)
(* Theorems about message.create (MessageCreate) and about the message      *)
(* store and its pages (MessageStore).                                      *)
(***************************************************************************)
EXTENDS MessageCreate, MessageStore, SequenceTheorems, FiniteSetTheorems, TLAPS

-----------------------------------------------------------------------------
(* message.create.  The inductive invariant.                                 *)

CreateState ==
  [pc : {"none", "walk", "upload", "save", "200", "500"}, target : Targets \cup {"none"},
   content : Seq(ContentElements), rest : Seq(ContentElements), inner : Seq(LeafElements),
   media : Media \cup {NoMedia}, passive : BOOLEAN, keyboard : BOOLEAN, posted : BOOLEAN]

(* A walk has a target, and what is left of it comes from its content.       *)
LeftOver(s) ==
  /\ s.pc # "none" => s.target \in Targets
  /\ ToSet(s.rest) \subseteq ToSet(s.content)
  /\ ToSet(s.inner) \subseteq ElementsOf(s.content)

(* A request that uploads stands on a resource and has no media yet; one     *)
(* that saves a handle was just given it for that resource, or an empty one. *)
Uploading(q) ==
  create[q].pc \in {"upload", "save"} =>
    /\ OnChat(q) /\ ~Done(q) /\ Element(q).kind \in Resources
    /\ create[q].pc = "upload" => create[q].media = NoMedia
    /\ create[q].pc = "save" =>
         \/ create[q].media = NoMedia
         \/ create[q].media \in uploaded /\ create[q].media.src = Element(q).src

(* The media a request has is of a source of its content, for its target.    *)
Fitting(s) ==
  s.media # NoMedia =>
    /\ s.media.target = s.target
    /\ \E e \in ElementsOf(s.content) : e.kind \in Resources /\ e.src = s.media.src

HandlesFit ==
  /\ DOMAIN handles \subseteq ChatTargets \X Sources
  /\ \A i \in DOMAIN handles :
       \/ handles[i] = NoMedia
       \/ handles[i] \in uploaded /\ handles[i].target = i[1] /\ handles[i].src = i[2]

(* Uploads are numbered in their order, and none of a request follows one it *)
(* was given the handle of.                                                  *)
Counted ==
  /\ IsFiniteSet(uploaded) /\ uploaded \subseteq Media
  /\ IsFiniteSet(unheard) /\ unheard \subseteq Media
  /\ \A v \in uploaded \cup unheard : v.no < Cardinality(uploaded) + Cardinality(unheard)
  /\ \A u \in uploaded : \A v \in uploaded \cup unheard :
       v.by = u.by => v = u \/ v.no < u.no

(* What the request was given a handle for is its media.                     *)
Owned ==
  \A u \in uploaded :
    create[u.by].media = u /\ create[u.by].pc \in {"walk", "save", "200", "500"}

CreateInv ==
  /\ CreateTypeOK /\ Counted
  /\ \A q \in Messages : LeftOver(create[q]) /\ Uploading(q) /\ Fitting(create[q])
  /\ HandlesFit /\ Owned

-----------------------------------------------------------------------------
LEMMA HeadAndTail ==
  ASSUME NEW S, NEW s \in Seq(S), s # << >>
  PROVE  /\ Tail(s) \in Seq(S) /\ Head(s) \in S /\ Head(s) \in ToSet(s)
         /\ ToSet(Tail(s)) \subseteq ToSet(s)
<1>1. /\ Len(s) \in Nat \ {0} /\ DOMAIN s = 1 .. Len(s) /\ Head(s) = s[1]
      /\ Tail(s) \in Seq(S) /\ Len(Tail(s)) = Len(s) - 1
      /\ \A i \in 1 .. Len(Tail(s)) : Tail(s)[i] = s[i + 1]
  BY EmptySeq, HeadTailProperties, LenProperties
<1>2. DOMAIN Tail(s) = 1 .. Len(Tail(s)) /\ s[1] \in S
  BY <1>1, LenProperties, ElementOfSeq
<1> QED
  BY <1>1, <1>2 DEF ToSet

LEMMA CreateStates ==
  ASSUME CreateTypeOK
  PROVE  create \in [Messages -> CreateState]
  BY DEF CreateTypeOK, CreateState

(* The element a request stands on belongs to its content.                   *)
LEMMA StandsOn ==
  ASSUME CreateTypeOK, NEW q \in Messages, ~Done(q), LeftOver(create[q])
  PROVE  /\ Element(q) \in ContentElements /\ Element(q) \in ElementsOf(create[q].content)
         /\ Element(q).kind \in Kinds /\ Element(q).src \in Sources
<1>1. create[q].rest \in Seq(ContentElements) /\ create[q].inner \in Seq(LeafElements)
  BY CreateStates DEF CreateState
<1>2. CASE InContainer(q)
  <2>1. Element(q) \in LeafElements /\ Element(q) \in ToSet(create[q].inner)
    BY <1>1, <1>2, HeadAndTail DEF Element, InContainer, Q
  <2> QED
    BY <2>1 DEF LeftOver, ContentElements, LeafElements
<1>3. CASE ~InContainer(q)
  <2>1. Element(q) \in ContentElements /\ Element(q) \in ToSet(create[q].rest)
    BY <1>1, <1>3, HeadAndTail DEF Element, Done, Q
  <2> QED
    BY <2>1 DEF LeftOver, ElementsOf, ContentElements, LeafElements, ContainerElements, Kinds
<1> QED
  BY <1>2, <1>3

(* A request that is past an element has what the step gave it, and less     *)
(* left over.                                                                *)
LEMMA PastElement ==
  ASSUME CreateTypeOK, NEW q \in Messages, ~Done(q), NEW state \in CreateState,
         state.rest = create[q].rest, state.inner = create[q].inner,
         state.content = create[q].content, state.target = create[q].target,
         create[q].pc # "none", LeftOver(create[q]), Past(q, state)
  PROVE  /\ create' \in [Messages -> CreateState]
         /\ \A r \in Messages \ {q} : create'[r] = create[r]
         /\ LeftOver(create'[q]) /\ create'[q].content = state.content
         /\ create'[q].pc = state.pc /\ create'[q].target = state.target
         /\ create'[q].media = state.media
<1>1. create \in [Messages -> CreateState]
  BY CreateStates
<1>2. create[q].rest \in Seq(ContentElements) /\ create[q].inner \in Seq(LeafElements)
  BY <1>1 DEF CreateState
<1>3. CASE InContainer(q)
  <2> DEFINE after == [state EXCEPT !.inner = Tail(@)]
  <2>1. Tail(create[q].inner) \in Seq(LeafElements)
        /\ ToSet(Tail(create[q].inner)) \subseteq ToSet(create[q].inner)
    BY <1>2, <1>3, HeadAndTail DEF InContainer, Q
  <2>2. /\ after \in CreateState /\ after.inner = Tail(create[q].inner)
        /\ after.rest = state.rest /\ after.content = state.content /\ after.pc = state.pc
        /\ after.target = state.target /\ after.media = state.media
    BY <2>1 DEF CreateState
  <2>3. create' = [create EXCEPT ![q] = after]
    BY <1>3 DEF Past
  <2>4. create'[q] = after /\ create' \in [Messages -> CreateState]
        /\ \A r \in Messages \ {q} : create'[r] = create[r]
    BY <1>1, <2>2, <2>3
  <2> QED
    BY <2>1, <2>2, <2>4 DEF LeftOver
<1>4. CASE ~InContainer(q)
  <2> DEFINE after == [state EXCEPT !.rest = Tail(@)]
  <2>1. Tail(create[q].rest) \in Seq(ContentElements)
        /\ ToSet(Tail(create[q].rest)) \subseteq ToSet(create[q].rest)
    BY <1>2, <1>4, HeadAndTail DEF Done, Q
  <2>2. /\ after \in CreateState /\ after.rest = Tail(create[q].rest)
        /\ after.inner = state.inner /\ after.content = state.content /\ after.pc = state.pc
        /\ after.target = state.target /\ after.media = state.media
    BY <2>1 DEF CreateState
  <2>3. create' = [create EXCEPT ![q] = after]
    BY <1>4 DEF Past
  <2>4. create'[q] = after /\ create' \in [Messages -> CreateState]
        /\ \A r \in Messages \ {q} : create'[r] = create[r]
    BY <1>1, <2>2, <2>3
  <2> QED
    BY <2>1, <2>2, <2>4 DEF LeftOver
<1> QED
  BY <1>3, <1>4

-----------------------------------------------------------------------------
LEMMA MediaIsMedia ==
  \A m \in Media : m # NoMedia /\ m.by \in Messages
  BY CreateAssumption DEF Media, NoMedia

(* A step of one request that leaves the platform alone.                     *)
LEMMA OneRequestAndHandles ==
  ASSUME CreateInv, NEW q \in Messages, create' \in [Messages -> CreateState],
         \A r \in Messages \ {q} : create'[r] = create[r],
         UNCHANGED uploaded, Counted', HandlesFit',
         LeftOver(create'[q]), Uploading(q)', Fitting(create'[q]),
         \A u \in uploaded : u.by = q =>
           create'[q].media = u /\ create'[q].pc \in {"walk", "save", "200", "500"}
  PROVE  CreateInv'
<1>1. CreateTypeOK'
  BY DEF CreateInv, CreateTypeOK, CreateState, HandlesFit, Counted
<1>2. ASSUME NEW r \in Messages
      PROVE  (LeftOver(create[r]) /\ Uploading(r) /\ Fitting(create[r]))'
  <2>1. CASE r = q
    BY <2>1
  <2>2. CASE r # q
    <3>1. create'[r] = create[r]
      BY <2>2
    <3> QED
      BY <3>1 DEF CreateInv, Uploading, OnChat, Done, Element, InContainer, Q
  <2> QED
    BY <2>1, <2>2
<1>3. ASSUME NEW u \in uploaded
      PROVE  create'[u.by].media = u /\ create'[u.by].pc \in {"walk", "save", "200", "500"}
  <2>1. u.by \in Messages
    BY MediaIsMedia DEF CreateInv, CreateTypeOK
  <2>2. CASE u.by = q
    BY <2>2
  <2>3. CASE u.by # q
    <3>1. create'[u.by] = create[u.by]
      BY <2>1, <2>3
    <3> QED
      BY <3>1 DEF CreateInv, Owned
  <2> QED
    BY <2>2, <2>3
<1> QED
  BY <1>1, <1>2, <1>3 DEF CreateInv, Owned

(* Or leaves the handles alone as well.                                      *)
LEMMA OneRequest ==
  ASSUME CreateInv, NEW q \in Messages, create' \in [Messages -> CreateState],
         \A r \in Messages \ {q} : create'[r] = create[r],
         UNCHANGED <<handles, uploaded, unheard>>,
         LeftOver(create'[q]), Uploading(q)', Fitting(create'[q]),
         \A u \in uploaded : u.by = q =>
           create'[q].media = u /\ create'[q].pc \in {"walk", "save", "200", "500"}
  PROVE  CreateInv'
<1>1. HandlesFit'
  BY DEF CreateInv, HandlesFit
<1>2. Counted'
  BY DEF CreateInv, Counted
<1> QED
  BY <1>1, <1>2, OneRequestAndHandles

(* Who is about to upload has no handle, nor has who has not begun.          *)
LEMMA NotYetUploaded ==
  ASSUME CreateInv, NEW q \in Messages, create[q].pc \in {"none", "upload"}
  PROVE  \A u \in uploaded : u.by # q
  BY DEF CreateInv, Owned

(* What the next upload is given is counted, whether the request is given    *)
(* its handle or not.                                                        *)
LEMMA GivenCounted ==
  ASSUME CreateInv, NEW q \in Messages, create[q].pc = "upload"
  PROVE  /\ Given(q) \in Media /\ Given(q).by = q
         /\ Given(q).target = create[q].target /\ Given(q).src = Element(q).src
         /\ Given(q) \notin uploaded \cup unheard
         /\ uploaded' = uploaded /\ unheard' = unheard => Counted'
         /\ uploaded' = uploaded /\ unheard' = unheard \cup {Given(q)} => Counted'
         /\ uploaded' = uploaded \cup {Given(q)} /\ unheard' = unheard => Counted'
<1> DEFINE n == Cardinality(uploaded) + Cardinality(unheard)
<1>1. /\ IsFiniteSet(uploaded) /\ uploaded \subseteq Media
      /\ IsFiniteSet(unheard) /\ unheard \subseteq Media
      /\ \A v \in uploaded \cup unheard : v.no < n
      /\ \A u \in uploaded : \A v \in uploaded \cup unheard :
           v.by = u.by => v = u \/ v.no < u.no
  BY DEF CreateInv, Counted
<1>2. Cardinality(uploaded) \in Nat /\ Cardinality(unheard) \in Nat
  BY <1>1, FS_CardinalityType
<1>3. create[q].target \in Targets /\ Element(q).src \in Sources
  BY StandsOn DEF CreateInv, LeftOver, Uploading
<1>4. Given(q) = [target |-> create[q].target, src |-> Element(q).src, by |-> q, no |-> n]
  BY DEF Given, Q
<1> HIDE DEF n
<1>5. n \in Nat
  BY <1>2 DEF n
<1>6. /\ Given(q) \in Media /\ Given(q).by = q /\ Given(q).no = n
      /\ Given(q).target = create[q].target /\ Given(q).src = Element(q).src
  BY <1>3, <1>4, <1>5 DEF Media
<1> DEFINE given == Given(q)
<1> HIDE DEF given
<1>7. given \in Media /\ given.by = q /\ given.no = n /\ given \notin uploaded \cup unheard
  BY <1>1, <1>5, <1>6 DEF given
<1>8. \A v \in uploaded \cup unheard : v.no \in Int
  BY <1>1 DEF Media
<1>9. \A u \in uploaded : u.by # q
  BY NotYetUploaded
<1>10. ASSUME uploaded' = uploaded, unheard' = unheard PROVE Counted'
  BY <1>1, <1>10 DEF Counted, n
<1>11. ASSUME uploaded' = uploaded, unheard' = unheard \cup {given} PROVE Counted'
  <2>1. IsFiniteSet(unheard') /\ Cardinality(unheard') = Cardinality(unheard) + 1
    BY <1>1, <1>7, <1>11, FS_AddElement
  <2>2. Cardinality(uploaded') + Cardinality(unheard') = n + 1
    BY <1>2, <1>11, <2>1 DEF n
  <2>3. \A v \in uploaded' \cup unheard' : v.no < n + 1
    BY <1>1, <1>5, <1>7, <1>8, <1>11
  <2>4. \A u \in uploaded' : \A v \in uploaded' \cup unheard' : v.by = u.by => v = u \/ v.no < u.no
    BY <1>1, <1>7, <1>9, <1>11
  <2> QED BY <1>1, <1>7, <1>11, <2>1, <2>2, <2>3, <2>4 DEF Counted
<1>12. ASSUME uploaded' = uploaded \cup {given}, unheard' = unheard PROVE Counted'
  <2>1. IsFiniteSet(uploaded') /\ Cardinality(uploaded') = Cardinality(uploaded) + 1
    BY <1>1, <1>7, <1>12, FS_AddElement
  <2>2. Cardinality(uploaded') + Cardinality(unheard') = n + 1
    BY <1>2, <1>12, <2>1 DEF n
  <2>3. \A v \in uploaded' \cup unheard' : v.no < n + 1
    BY <1>1, <1>5, <1>7, <1>8, <1>12
  <2>4. \A u \in uploaded' : \A v \in uploaded' \cup unheard' : v.by = u.by => v = u \/ v.no < u.no
    BY <1>1, <1>7, <1>9, <1>12
  <2> QED BY <1>1, <1>7, <1>12, <2>1, <2>2, <2>3, <2>4 DEF Counted
<1> QED BY <1>6, <1>7, <1>10, <1>11, <1>12 DEF given

LEMMA BeginCreateStep ==
  ASSUME CreateInv, NEW q \in Messages, NEW t \in Targets, NEW c \in Contents,
         BeginCreate(q, t, c)
  PROVE  CreateInv'
<1> DEFINE s == [NoCreate EXCEPT !.pc = "walk", !.target = t, !.content = c, !.rest = c]
<1>1. create \in [Messages -> CreateState]
  BY CreateStates DEF CreateInv
<1>2. c \in Seq(ContentElements) /\ << >> \in Seq(LeafElements) /\ ToSet(<< >>) = {}
  BY CreateAssumption, EmptySeq DEF ToSet
<1>3. /\ s \in CreateState /\ s.pc = "walk" /\ s.media = NoMedia /\ s.rest = s.content
      /\ s.inner = << >> /\ s.target = t
  BY <1>2 DEF CreateState, NoCreate
<1> HIDE DEF s
<1>4. create' = [create EXCEPT ![q] = s] /\ UNCHANGED <<handles, uploaded, unheard>>
  BY DEF BeginCreate, s
<1>5. /\ create' \in [Messages -> CreateState] /\ create'[q] = s
      /\ \A r \in Messages \ {q} : create'[r] = create[r]
  BY <1>1, <1>3, <1>4
<1>6. \A u \in uploaded : u.by # q
  BY NotYetUploaded DEF BeginCreate, Q
<1> QED
  BY <1>2, <1>3, <1>4, <1>5, <1>6, OneRequest DEF LeftOver, Uploading, Fitting

(* A walking request that takes an element and keeps its media.              *)
LEMMA KeepsItsMedia ==
  ASSUME CreateInv, NEW q \in Messages, create[q].pc = "walk", ~Done(q),
         NEW state \in CreateState, state.rest = create[q].rest,
         state.inner = create[q].inner, state.content = create[q].content,
         state.media = create[q].media, state.target = create[q].target,
         state.pc = create[q].pc,
         Past(q, state), UNCHANGED <<handles, uploaded, unheard>>
  PROVE  CreateInv'
<1>1. LeftOver(create[q]) /\ Fitting(create[q]) /\ CreateTypeOK
  BY DEF CreateInv
<1>2. /\ create' \in [Messages -> CreateState]
      /\ \A r \in Messages \ {q} : create'[r] = create[r]
      /\ LeftOver(create'[q]) /\ create'[q].content = create[q].content
      /\ create'[q].pc = "walk" /\ create'[q].target = create[q].target
      /\ create'[q].media = create[q].media
  BY <1>1, PastElement
<1>3. Fitting(create'[q]) /\ Uploading(q)'
  BY <1>1, <1>2 DEF Fitting, Uploading
<1>4. \A u \in uploaded : u.by = q =>
        create'[q].media = u /\ create'[q].pc \in {"walk", "save", "200", "500"}
  BY <1>2 DEF CreateInv, Owned
<1> QED
  BY <1>2, <1>3, <1>4, OneRequest

LEMMA TakeElementStep ==
  ASSUME CreateInv, NEW q \in Messages, TakeElement(q)
  PROVE  CreateInv'
<1> DEFINE state == [create[q] EXCEPT !.passive = @ \/ Element(q).kind = "passive",
                                      !.keyboard = @ \/ (Element(q).kind = "button" /\ OnChat(q))]
<1>1. create[q] \in CreateState
  BY CreateStates DEF CreateInv
<1>2. /\ state \in CreateState /\ state.rest = create[q].rest /\ state.inner = create[q].inner
      /\ state.content = create[q].content /\ state.media = create[q].media
      /\ state.target = create[q].target /\ state.pc = create[q].pc
  BY <1>1 DEF CreateState
<1>3. /\ create[q].pc = "walk" /\ ~Done(q) /\ Past(q, state) /\ UNCHANGED <<handles, uploaded, unheard>>
  BY DEF TakeElement, Walks, Q
<1> HIDE DEF state
<1> QED
  BY <1>2, <1>3, KeepsItsMedia

LEMMA OpenContainerStep ==
  ASSUME CreateInv, NEW q \in Messages, OpenContainer(q)
  PROVE  CreateInv'
<1> DEFINE s == create[q]
           e == Element(q)
           after == [s EXCEPT !.rest = Tail(s.rest), !.inner = e.children]
<1>1. /\ create \in [Messages -> CreateState] /\ s \in CreateState
      /\ LeftOver(s) /\ Fitting(s) /\ CreateTypeOK
  BY CreateStates DEF CreateInv
<1>2. /\ s.pc = "walk" /\ ~Done(q) /\ e.kind = "container" /\ UNCHANGED <<handles, uploaded, unheard>>
  BY DEF OpenContainer, Walks, Q
<1>3. ~InContainer(q)
  <2> SUFFICES ASSUME InContainer(q) PROVE FALSE
    OBVIOUS
  <2>1. e \in LeafElements
    BY <1>1, HeadAndTail DEF Element, InContainer, Q, CreateState
  <2> QED
    BY <1>2, <2>1 DEF LeafElements
<1>4. /\ e = Head(s.rest) /\ s.rest # << >> /\ s.rest \in Seq(ContentElements)
  BY <1>1, <1>2, <1>3 DEF Element, Done, Q, CreateState
<1>5. /\ e \in ContentElements /\ e \in ToSet(s.content) /\ Tail(s.rest) \in Seq(ContentElements)
      /\ ToSet(Tail(s.rest)) \subseteq ToSet(s.content)
  BY <1>1, <1>4, HeadAndTail DEF LeftOver
<1>6. e.children \in Seq(LeafElements) /\ ToSet(e.children) \subseteq ElementsOf(s.content)
  BY <1>2, <1>5 DEF ContentElements, LeafElements, ContainerElements, ElementsOf
<1>7. /\ after \in CreateState /\ after.rest = Tail(s.rest) /\ after.inner = e.children
      /\ after.content = s.content /\ after.pc = s.pc /\ after.media = s.media
      /\ after.target = s.target
  BY <1>1, <1>5, <1>6 DEF CreateState
<1>8. create' = [create EXCEPT ![q] = after]
  BY DEF OpenContainer
<1> HIDE DEF after, e
<1>9. /\ create' \in [Messages -> CreateState] /\ create'[q] = after
      /\ \A r \in Messages \ {q} : create'[r] = create[r]
  BY <1>1, <1>7, <1>8
<1>10. /\ LeftOver(create'[q]) /\ Fitting(create'[q]) /\ Uploading(q)'
  BY <1>1, <1>2, <1>5, <1>6, <1>7, <1>9 DEF LeftOver, Fitting, Uploading
<1>11. \A u \in uploaded : u.by = q =>
         create'[q].media = u /\ create'[q].pc \in {"walk", "save", "200", "500"}
  BY <1>2, <1>7, <1>9 DEF CreateInv, Owned
<1> QED
  BY <1>2, <1>9, <1>10, <1>11, OneRequest

(* A walking request without media takes some for the element it stands on.  *)
LEMMA TakesMedia ==
  ASSUME CreateInv, NEW q \in Messages, create[q].pc = "walk", ~Done(q),
         Element(q).kind \in Resources, create[q].media = NoMedia,
         NEW m \in Media, m.target = create[q].target, m.src = Element(q).src,
         Past(q, [create[q] EXCEPT !.media = m]), UNCHANGED <<handles, uploaded, unheard>>
  PROVE  CreateInv'
<1> DEFINE state == [create[q] EXCEPT !.media = m]
<1>1. /\ create[q] \in CreateState /\ LeftOver(create[q]) /\ CreateTypeOK
  BY CreateStates DEF CreateInv
<1>2. /\ state \in CreateState /\ state.rest = create[q].rest /\ state.inner = create[q].inner
      /\ state.content = create[q].content /\ state.media = m
      /\ state.target = create[q].target /\ state.pc = create[q].pc
  BY <1>1 DEF CreateState
<1> HIDE DEF state
<1>3. Past(q, state)
  BY DEF state
<1>4. /\ create' \in [Messages -> CreateState]
      /\ \A r \in Messages \ {q} : create'[r] = create[r]
      /\ LeftOver(create'[q]) /\ create'[q].content = create[q].content
      /\ create'[q].pc = "walk" /\ create'[q].target = create[q].target
      /\ create'[q].media = m
  BY <1>1, <1>2, <1>3, PastElement
<1>5. Element(q) \in ElementsOf(create[q].content)
  BY <1>1, StandsOn
<1>6. Fitting(create'[q]) /\ Uploading(q)'
  BY <1>4, <1>5 DEF Fitting, Uploading
<1>7. \A u \in uploaded : u.by # q
  BY MediaIsMedia DEF CreateInv, CreateTypeOK, Owned
<1> QED
  BY <1>4, <1>6, <1>7, OneRequest

LEMMA TakeImageStep ==
  ASSUME CreateInv, NEW q \in Messages, TakeImage(q)
  PROVE  CreateInv'
<1> DEFINE e == Element(q)
<1>1. /\ create[q] \in CreateState /\ LeftOver(create[q]) /\ CreateTypeOK
  BY CreateStates DEF CreateInv
<1>2. /\ create[q].pc = "walk" /\ ~Done(q) /\ e.kind \in Resources
      /\ UNCHANGED <<handles, uploaded, unheard>>
  BY DEF TakeImage, Walks, Q
<1>3. PICK media \in {create[q].media} \cup
          (IF HasMedia(q) \/ e.kind # "img" \/ ~Readable(q) THEN {}
           ELSE {[NoMedia EXCEPT !.target = create[q].target, !.src = e.src, !.by = q]}) :
        Past(q, [create[q] EXCEPT !.media = media])
  BY DEF TakeImage, Q
<1>4. CASE media = create[q].media
  <2> DEFINE state == [create[q] EXCEPT !.media = media]
  <2>1. /\ state \in CreateState /\ state.rest = create[q].rest
        /\ state.inner = create[q].inner /\ state.content = create[q].content
        /\ state.media = create[q].media /\ state.target = create[q].target
        /\ state.pc = create[q].pc
    BY <1>1, <1>4 DEF CreateState
  <2>2. Past(q, state)
    BY <1>3
  <2> HIDE DEF state
  <2> QED
    BY <1>2, <2>1, <2>2, KeepsItsMedia
<1>5. CASE media # create[q].media
  <2>1. /\ media = [NoMedia EXCEPT !.target = create[q].target, !.src = e.src, !.by = q]
        /\ create[q].media = NoMedia
    BY <1>3, <1>5 DEF HasMedia, Q
  <2>2. create[q].target \in Targets /\ e.src \in Sources
    BY <1>1, <1>2, StandsOn DEF LeftOver
  <2>3. media \in Media /\ media.target = create[q].target /\ media.src = e.src
    BY <2>1, <2>2 DEF Media, NoMedia
  <2> QED
    BY <1>2, <1>3, <2>1, <2>3, TakesMedia
<1> QED
  BY <1>4, <1>5

LEMMA TakeResourceStep ==
  ASSUME CreateInv, NEW q \in Messages, TakeResource(q)
  PROVE  CreateInv'
<1> DEFINE e == Element(q)
           s == create[q]
<1>1. /\ create \in [Messages -> CreateState] /\ s \in CreateState
      /\ LeftOver(s) /\ Fitting(s) /\ CreateTypeOK /\ HandlesFit
  BY CreateStates DEF CreateInv
<1>2. /\ s.pc = "walk" /\ ~Done(q) /\ e.kind \in Resources /\ OnChat(q)
      /\ UNCHANGED <<handles, uploaded, unheard>>
  BY DEF TakeResource, Walks, Q
<1>3. CASE Past(q, s)
  BY <1>1, <1>2, <1>3, KeepsItsMedia
<1>4. CASE /\ s.media = NoMedia /\ Cached(q)
           /\ Past(q, [s EXCEPT !.media = handles[Ident(q)]])
  <2>1. Ident(q) \in DOMAIN handles /\ Ident(q) = <<s.target, e.src>>
    BY <1>4 DEF Cached, Ident, Q
  <2>2. CASE handles[Ident(q)] = NoMedia
    <3> DEFINE state == [s EXCEPT !.media = NoMedia]
    <3>1. /\ state \in CreateState /\ state.rest = s.rest /\ state.inner = s.inner
          /\ state.content = s.content /\ state.media = s.media /\ state.target = s.target
          /\ state.pc = s.pc
      BY <1>1, <1>4 DEF CreateState
    <3>2. Past(q, state)
      BY <1>4, <2>2
    <3> HIDE DEF state
    <3> QED
      BY <1>2, <3>1, <3>2, KeepsItsMedia
  <2>3. CASE handles[Ident(q)] # NoMedia
    <3>1. /\ handles[Ident(q)] \in Media /\ handles[Ident(q)].target = s.target
          /\ handles[Ident(q)].src = e.src
      BY <1>1, <2>1, <2>3 DEF CreateTypeOK, HandlesFit
    <3> QED
      BY <1>2, <1>4, <3>1, TakesMedia
  <2> QED
    BY <2>2, <2>3
<1>5. CASE s.media = NoMedia /\ create' = [create EXCEPT ![q].pc = "upload"]
  <2> DEFINE after == [s EXCEPT !.pc = "upload"]
  <2>1. /\ after \in CreateState /\ after.rest = s.rest /\ after.inner = s.inner
        /\ after.content = s.content /\ after.media = NoMedia /\ after.target = s.target
        /\ after.pc = "upload"
    BY <1>1, <1>5 DEF CreateState
  <2>2. create' = [create EXCEPT ![q] = after]
    BY <1>5
  <2> HIDE DEF after
  <2>3. /\ create' \in [Messages -> CreateState] /\ create'[q] = after
        /\ \A r \in Messages \ {q} : create'[r] = create[r]
    BY <1>1, <2>1, <2>2
  <2>4. LeftOver(create'[q]) /\ Fitting(create'[q])
    BY <1>1, <1>2, <2>1, <2>3 DEF LeftOver, Fitting
  <2>5. Uploading(q)'
    BY <1>2, <2>1, <2>3 DEF Uploading, OnChat, Done, Element, InContainer, Q
  <2>6. \A u \in uploaded : u.by # q
    BY <1>5, MediaIsMedia DEF CreateInv, CreateTypeOK, Owned
  <2> QED
    BY <1>2, <2>3, <2>4, <2>5, <2>6, OneRequest
<1> QED
  BY <1>3, <1>4, <1>5 DEF TakeResource, HasMedia, Q

LEMMA UploadFailsStep ==
  ASSUME CreateInv, NEW q \in Messages, UploadFails(q)
  PROVE  CreateInv'
<1> DEFINE s == create[q]
<1>1. /\ create \in [Messages -> CreateState] /\ s \in CreateState /\ LeftOver(s)
      /\ Fitting(s)
  BY CreateStates DEF CreateInv
<1>2. /\ s.pc = "upload" /\ create' = [create EXCEPT ![q] = FailedWalk(q)]
      /\ UNCHANGED <<handles, uploaded>> /\ unheard' \in {unheard, unheard \cup {Given(q)}}
  BY DEF UploadFails, Q
<1>3. << >> \in Seq(LeafElements) /\ ToSet(<< >>) = {}
  BY EmptySeq DEF ToSet
<1>4. /\ FailedWalk(q) \in CreateState /\ FailedWalk(q).pc \in {"walk", "500"}
      /\ FailedWalk(q).rest = s.rest /\ FailedWalk(q).inner \in {s.inner, << >>}
      /\ FailedWalk(q).content = s.content /\ FailedWalk(q).media = s.media
      /\ FailedWalk(q).target = s.target
  BY <1>1, <1>3 DEF FailedWalk, CreateState, Q
<1>5. /\ create' \in [Messages -> CreateState] /\ create'[q] = FailedWalk(q)
      /\ \A r \in Messages \ {q} : create'[r] = create[r]
  BY <1>1, <1>2, <1>4
<1>6. LeftOver(create'[q]) /\ Fitting(create'[q]) /\ Uploading(q)'
  BY <1>1, <1>2, <1>3, <1>4, <1>5 DEF LeftOver, Fitting, Uploading
<1>7. \A u \in uploaded : u.by # q
  BY <1>2, NotYetUploaded
<1>8. Counted' /\ HandlesFit'
  BY <1>2, GivenCounted DEF CreateInv, HandlesFit
<1> QED
  BY <1>2, <1>5, <1>6, <1>7, <1>8, OneRequestAndHandles

LEMMA PostStep ==
  ASSUME CreateInv, NEW q \in Messages, Post(q)
  PROVE  CreateInv'
<1> DEFINE s == create[q]
<1>1. /\ create \in [Messages -> CreateState] /\ s \in CreateState /\ LeftOver(s)
      /\ Fitting(s)
  BY CreateStates DEF CreateInv
<1>2. PICK posted \in BOOLEAN, code \in {"200", "500"} :
        create' = [create EXCEPT ![q].pc = code, ![q].posted = posted]
  BY DEF Post
<1>3. s.pc = "walk" /\ UNCHANGED <<handles, uploaded, unheard>>
  BY DEF Post, Q
<1>4. /\ create'[q].pc = code /\ create'[q].rest = s.rest /\ create'[q].inner = s.inner
      /\ create'[q].content = s.content /\ create'[q].media = s.media
      /\ create'[q].target = s.target /\ create'[q] \in CreateState
      /\ \A r \in Messages \ {q} : create'[r] = create[r]
  BY <1>1, <1>2 DEF CreateState
<1>5. create' \in [Messages -> CreateState]
  BY <1>1, <1>2, <1>4
<1>6. LeftOver(create'[q]) /\ Fitting(create'[q]) /\ Uploading(q)'
  BY <1>1, <1>3, <1>4 DEF LeftOver, Fitting, Uploading
<1>7. \A u \in uploaded : u.by = q =>
        create'[q].media = u /\ create'[q].pc \in {"walk", "save", "200", "500"}
  BY <1>3, <1>4 DEF CreateInv, Owned
<1> QED
  BY <1>3, <1>4, <1>5, <1>6, <1>7, OneRequest

LEMMA SaveHandleStep ==
  ASSUME CreateInv, NEW q \in Messages, SaveHandle(q)
  PROVE  CreateInv'
<1> DEFINE s == create[q]
           state == [s EXCEPT !.pc = "walk"]
<1>1. /\ create \in [Messages -> CreateState] /\ s \in CreateState /\ LeftOver(s)
      /\ Fitting(s) /\ Uploading(q) /\ CreateTypeOK /\ HandlesFit
  BY CreateStates DEF CreateInv
<1>2. s.pc = "save" /\ UNCHANGED <<uploaded, unheard>>
  BY DEF SaveHandle, Q
<1>3. /\ s.target \in ChatTargets /\ ~Done(q)
      /\ s.media = NoMedia \/ (s.media \in uploaded /\ s.media.src = Element(q).src)
  BY <1>1, <1>2 DEF Uploading, OnChat, Q
<1>4. s.media # NoMedia => s.media.target = s.target
  BY <1>1 DEF Fitting
<1>5. Ident(q) = <<s.target, Element(q).src>> /\ Ident(q) \in ChatTargets \X Sources
  BY <1>1, <1>3, StandsOn DEF Ident, Q
<1>6. HandlesFit'
  <2>1. CASE UNCHANGED handles
    BY <1>1, <1>2, <2>1 DEF HandlesFit
  <2>2. CASE handles' = [i \in DOMAIN handles \cup {Ident(q)} |->
                           IF i = Ident(q) THEN s.media ELSE handles[i]]
    BY <1>1, <1>2, <1>3, <1>4, <1>5, <2>2 DEF HandlesFit
  <2> QED
    BY <2>1, <2>2 DEF SaveHandle, Q
<1>7. /\ state \in CreateState /\ state.rest = s.rest /\ state.inner = s.inner
      /\ state.content = s.content /\ state.media = s.media /\ state.target = s.target
      /\ state.pc = "walk"
  BY <1>1 DEF CreateState
<1>8. Past(q, state)
  BY DEF SaveHandle, Q
<1> HIDE DEF state
<1>9. /\ create' \in [Messages -> CreateState]
      /\ \A r \in Messages \ {q} : create'[r] = create[r]
      /\ LeftOver(create'[q]) /\ create'[q].content = s.content
      /\ create'[q].pc = "walk" /\ create'[q].target = s.target
      /\ create'[q].media = s.media
  BY <1>1, <1>2, <1>3, <1>7, <1>8, PastElement
<1>10. Fitting(create'[q]) /\ Uploading(q)'
  BY <1>1, <1>9 DEF Fitting, Uploading
<1>11. \A u \in uploaded : u.by = q =>
         create'[q].media = u /\ create'[q].pc \in {"walk", "save", "200", "500"}
  BY <1>9 DEF CreateInv, Owned
<1>12. Counted'
  BY <1>2 DEF CreateInv, Counted
<1> QED
  BY <1>2, <1>6, <1>9, <1>10, <1>11, <1>12, OneRequestAndHandles

LEMMA UploadStep ==
  ASSUME CreateInv, NEW q \in Messages, Upload(q)
  PROVE  CreateInv'
<1> DEFINE s == create[q]
<1>1. /\ create \in [Messages -> CreateState] /\ s \in CreateState /\ LeftOver(s)
      /\ Uploading(q) /\ CreateTypeOK /\ HandlesFit
  BY CreateStates DEF CreateInv
<1>2. PICK handle \in {Given(q), NoMedia} :
        /\ UploadAnswered(q, handle)
        /\ \/ handle = Given(q) /\ uploaded' = uploaded \cup {Given(q)} /\ UNCHANGED unheard
           \/ handle = NoMedia /\ unheard' = unheard \cup {Given(q)} /\ UNCHANGED uploaded
  BY DEF Upload
<1>3. s.pc = "upload" /\ UNCHANGED handles
  BY DEF Upload, Q
<1>4. /\ s.target \in ChatTargets /\ ~Done(q) /\ Element(q).kind \in Resources
  BY <1>1, <1>3 DEF Uploading, OnChat, Q
<1>5. Element(q).src \in Sources /\ Element(q) \in ElementsOf(s.content)
  BY <1>1, <1>4, StandsOn
<1>6. /\ Given(q) \in Media /\ Given(q).by = q /\ Given(q).target = s.target
      /\ Given(q).src = Element(q).src /\ Counted'
  BY <1>2, <1>3, GivenCounted
<1> DEFINE walking == [s EXCEPT !.pc = "walk", !.media = handle]
           saving == [s EXCEPT !.pc = "save", !.media = handle]
<1>7. /\ create' \in [Messages -> CreateState]
      /\ \A r \in Messages \ {q} : create'[r] = create[r]
      /\ LeftOver(create'[q]) /\ create'[q].content = s.content
      /\ create'[q].target = s.target /\ create'[q].media = handle
      /\ \/ create'[q].pc = "walk"
         \/ /\ create'[q].pc = "save" /\ create'[q].rest = s.rest
            /\ create'[q].inner = s.inner
  <2>1. CASE Past(q, walking)
    <3>1. /\ walking \in CreateState /\ walking.rest = s.rest /\ walking.inner = s.inner
          /\ walking.content = s.content /\ walking.media = handle
          /\ walking.target = s.target /\ walking.pc = "walk"
      BY <1>1, <1>6 DEF CreateState
    <3> HIDE DEF walking
    <3> QED
      BY <1>1, <1>3, <1>4, <2>1, <3>1, PastElement
  <2>2. CASE create' = [create EXCEPT ![q].pc = "save", ![q].media = handle]
    <3>1. /\ saving \in CreateState /\ saving.rest = s.rest /\ saving.inner = s.inner
          /\ saving.content = s.content /\ saving.media = handle
          /\ saving.target = s.target /\ saving.pc = "save"
      BY <1>1, <1>6 DEF CreateState
    <3>2. create' = [create EXCEPT ![q] = saving]
      BY <2>2
    <3> HIDE DEF saving
    <3>3. create'[q] = saving /\ create' \in [Messages -> CreateState]
          /\ \A r \in Messages \ {q} : create'[r] = create[r]
      BY <1>1, <3>1, <3>2
    <3> QED
      BY <1>1, <1>3, <3>1, <3>3 DEF LeftOver
  <2> QED
    BY <1>2, <2>1, <2>2 DEF UploadAnswered, Q
<1>8. Fitting(create'[q])
  BY <1>4, <1>5, <1>6, <1>7 DEF Fitting
<1>9. Uploading(q)'
  BY <1>2, <1>4, <1>6, <1>7 DEF Uploading, OnChat, Done, Element, InContainer, Q
<1>10. CreateTypeOK' /\ HandlesFit'
  BY <1>1, <1>2, <1>3, <1>6, <1>7 DEF CreateTypeOK, CreateState, HandlesFit
<1>11. ASSUME NEW r \in Messages \ {q}
       PROVE  (LeftOver(create[r]) /\ Uploading(r) /\ Fitting(create[r]))'
  <2>1. create'[r] = create[r] /\ uploaded \subseteq uploaded'
    BY <1>2, <1>7
  <2> QED
    BY <2>1 DEF CreateInv, Uploading, OnChat, Done, Element, InContainer, Q
<1>12. ASSUME NEW u \in uploaded'
       PROVE  create'[u.by].media = u /\ create'[u.by].pc \in {"walk", "save", "200", "500"}
  <2>1. CASE u \in uploaded
    <3>1. u.by \in Messages /\ u.by # q
      BY <1>1, <1>3, <2>1, MediaIsMedia, NotYetUploaded DEF CreateTypeOK
    <3>2. create'[u.by] = create[u.by]
      BY <1>7, <3>1
    <3> QED
      BY <2>1, <3>2 DEF CreateInv, Owned
  <2>2. CASE u \notin uploaded
    <3>1. u = Given(q) /\ handle = Given(q)
      BY <1>2, <2>2
    <3> QED
      BY <1>6, <1>7, <3>1
  <2> QED
    BY <2>1, <2>2
<1> QED
  BY <1>6, <1>7, <1>8, <1>9, <1>10, <1>11, <1>12 DEF CreateInv, Owned

LEMMA HandleExpiresStep ==
  ASSUME CreateInv, NEW i \in DOMAIN handles, HandleExpires(i)
  PROVE  CreateInv'
<1>1. /\ UNCHANGED <<create, uploaded, unheard>>
      /\ handles' = [j \in DOMAIN handles \ {i} |-> handles[j]]
  BY DEF HandleExpires
<1>2. HandlesFit'
  BY <1>1 DEF CreateInv, HandlesFit
<1>3. CreateTypeOK'
  BY <1>1, <1>2 DEF CreateInv, CreateTypeOK, HandlesFit
<1> QED
  BY <1>1, <1>2, <1>3 DEF CreateInv, Uploading, OnChat, Done, Element, InContainer, Q, Owned,
              Counted
-----------------------------------------------------------------------------
LEMMA CreateInitially == CreateInit => CreateInv
<1> SUFFICES ASSUME CreateInit PROVE CreateInv
  OBVIOUS
<1>1. << >> \in Seq(ContentElements) /\ << >> \in Seq(LeafElements) /\ ToSet(<< >>) = {}
  BY EmptySeq DEF ToSet
<1>2. CreateTypeOK
  BY <1>1 DEF CreateInit, CreateTypeOK, NoCreate
<1>3. Counted /\ HandlesFit /\ Owned
  BY FS_EmptySet DEF CreateInit, HandlesFit, Owned, Counted
<1>4. \A q \in Messages : LeftOver(create[q]) /\ Uploading(q) /\ Fitting(create[q])
  BY <1>1 DEF CreateInit, NoCreate, LeftOver, Uploading, Fitting
<1> QED
  BY <1>2, <1>3, <1>4 DEF CreateInv

LEMMA CreateSteps == CreateInv /\ [CreateNext]_createVars => CreateInv'
<1> SUFFICES ASSUME CreateInv, [CreateNext]_createVars PROVE CreateInv'
  OBVIOUS
<1>1. CASE UNCHANGED createVars
  BY <1>1 DEF createVars, CreateInv, CreateTypeOK, Uploading, OnChat, Done, Element,
              InContainer, Q, HandlesFit, Owned, Counted
<1>2. ASSUME NEW q \in Messages, NEW t \in Targets, NEW c \in Contents, BeginCreate(q, t, c)
      PROVE  CreateInv'
  BY <1>2, BeginCreateStep
<1>3. ASSUME NEW q \in Messages,
             TakeElement(q) \/ OpenContainer(q) \/ TakeImage(q) \/ TakeResource(q)
      PROVE  CreateInv'
  BY <1>3, TakeElementStep, OpenContainerStep, TakeImageStep, TakeResourceStep
<1>4. ASSUME NEW q \in Messages, Upload(q) \/ UploadFails(q) \/ SaveHandle(q) \/ Post(q)
      PROVE  CreateInv'
  BY <1>4, UploadStep, UploadFailsStep, SaveHandleStep, PostStep
<1>5. ASSUME NEW i \in DOMAIN handles, HandleExpires(i)
      PROVE  CreateInv'
  BY <1>5, HandleExpiresStep
<1> QED
  BY <1>1, <1>2, <1>3, <1>4, <1>5 DEF CreateNext

THEOREM CreateInvariant == CreateSpec => []CreateInv
<1> QED
  BY CreateInitially, CreateSteps, PTL DEF CreateSpec

(* message.create posts a message only with media of its own content,       *)
(* uploaded for the target it goes to (parseResourceElementInMTCV2).         *)
THEOREM MediaFitsCorrect == CreateSpec => []MediaFits
<1>1. CreateInv => MediaFits
  BY DEF CreateInv, Fitting, MediaFits, HasMedia, Q
<1> QED
  BY <1>1, CreateInvariant, PTL

(* A request that was given the handle of an upload uploads nothing more and *)
(* posts what it was given (parseElementsInMessageToCreateV2): for any       *)
(* contents and failures, and requests that share the kept handles.          *)
THEOREM UploadsAreUsedCorrect == CreateSpec => []UploadsAreUsed
<1>1. CreateInv => UploadsAreUsed
  BY DEF CreateInv, Counted, Owned, UploadsAreUsed, Q
<1> QED
  BY <1>1, CreateInvariant, PTL

(* The goroutines of message.create keep to their types, and every handle   *)
(* kept is one the platform has given, if it is not empty.                   *)
THEOREM CreateTypeCorrect == CreateSpec => []CreateTypeOK
<1>1. CreateInv => CreateTypeOK
  BY DEF CreateInv
<1> QED
  BY <1>1, CreateInvariant, PTL

-----------------------------------------------------------------------------
(* The message store.  Keys are ordered.                                     *)
LEMMA KeyIsPair ==
  ASSUME NEW k \in MessageKeys
  PROVE  /\ k = <<k[1], k[2]>> /\ k[1] \in Channels /\ k[2] \in Ids
         /\ k[1] \in Nat /\ k[2] \in Nat \ {0}
<1>1. PICK c \in Channels, i \in Ids : k = <<c, i>>
  BY DEF MessageKeys
<1> QED
  BY <1>1, StoreAssumption

LEMMA BelowOrder ==
  /\ \A k \in MessageKeys : ~Below(k, k)
  /\ \A k, l \in MessageKeys : k = l \/ Below(k, l) \/ Below(l, k)
  /\ \A k, l, m \in MessageKeys : Below(k, l) /\ Below(l, m) => Below(k, m)
<1> SUFFICES ASSUME NEW k \in MessageKeys, NEW l \in MessageKeys, NEW m \in MessageKeys
             PROVE  /\ ~Below(k, k) /\ (k = l \/ Below(k, l) \/ Below(l, k))
                    /\ Below(k, l) /\ Below(l, m) => Below(k, m)
  OBVIOUS
<1>1. /\ k[1] \in Nat /\ k[2] \in Nat /\ l[1] \in Nat /\ l[2] \in Nat
      /\ m[1] \in Nat /\ m[2] \in Nat /\ k = <<k[1], k[2]>> /\ l = <<l[1], l[2]>>
  BY KeyIsPair
<1>2. ~Below(k, k)
  BY <1>1 DEF Below
<1>3. k = l \/ Below(k, l) \/ Below(l, k)
  <2>1. CASE k[1] = l[1] /\ k[2] = l[2]
    BY <1>1, <2>1
  <2>2. CASE k[1] # l[1] \/ k[2] # l[2]
    BY <1>1, <2>2 DEF Below
  <2> QED
    BY <2>1, <2>2
<1>4. Below(k, l) /\ Below(l, m) => Below(k, m)
  BY <1>1 DEF Below
<1> QED
  BY <1>2, <1>3, <1>4

(* A key between two of one channel belongs to it.                           *)
LEMMA BetweenInChannel ==
  ASSUME NEW a \in MessageKeys, NEW k \in MessageKeys, NEW b \in MessageKeys,
         a[1] = b[1], Below(a, k), Below(k, b)
  PROVE  k[1] = a[1]
<1>1. a[1] \in Nat /\ k[1] \in Nat /\ b[1] \in Nat
  BY KeyIsPair
<1> QED
  BY <1>1 DEF Below

(* o lists the keys of S in their order.                                     *)
Lists(o, S) ==
  /\ o \in Seq(S) /\ ToSet(o) = S
  /\ \A i, j \in 1 .. Len(o) : i < j => Below(o[i], o[j])

(* Ordered is the order of the database's keys: each has as many below it as *)
(* stand before it.                                                          *)
LEMMA OrderedLists ==
  ASSUME NEW S \in SUBSET MessageKeys, IsFiniteSet(S)
  PROVE  Lists(Ordered(S), S) /\ Len(Ordered(S)) = Cardinality(S)
<1> DEFINE n == Cardinality(S)
           under(k) == {l \in S : Below(l, k)}
           rank == [k \in S |-> Cardinality(under(k))]
           pick(i) == CHOOSE k \in S : Cardinality(under(k)) = i - 1
           o == Ordered(S)
<1>1. n \in Nat
  BY FS_CardinalityType
<1>2. ASSUME NEW k \in S
      PROVE  rank[k] \in 0 .. n - 1
  <2>1. under(k) \in SUBSET S /\ under(k) # S
    BY BelowOrder
  <2>2. IsFiniteSet(under(k)) /\ Cardinality(under(k)) <= n /\ Cardinality(under(k)) # n
    BY <2>1, FS_Subset
  <2>3. Cardinality(under(k)) \in Nat
    BY <2>2, FS_CardinalityType
  <2> QED
    BY <1>1, <2>2, <2>3
<1>3. ASSUME NEW k \in S, NEW m \in S, Below(k, m)
      PROVE  rank[k] < rank[m]
  <2>1. under(m) \in SUBSET S /\ under(k) \in SUBSET under(m) /\ k \in under(m) /\ k \notin under(k)
    BY <1>3, BelowOrder
  <2>2. IsFiniteSet(under(m))
    BY <2>1, FS_Subset
  <2>3. Cardinality(under(k)) <= Cardinality(under(m)) /\ Cardinality(under(k)) # Cardinality(under(m))
    BY <2>1, <2>2, FS_Subset
  <2>4. Cardinality(under(k)) = rank[k] /\ Cardinality(under(m)) = rank[m]
    OBVIOUS
  <2>5. rank[k] \in Nat /\ rank[m] \in Nat
    BY <1>1, <1>2
  <2> HIDE DEF rank, under
  <2> QED
    BY <2>3, <2>4, <2>5
<1>4. /\ rank \in [S -> 0 .. n - 1]
      /\ \A k \in S : Cardinality(under(k)) = rank[k]
  BY <1>2
<1> HIDE DEF rank
<1>5. ASSUME NEW k \in S, NEW m \in S, rank[k] = rank[m]
      PROVE  k = m
  <2>1. rank[k] \in Int /\ rank[m] \in Int
    BY <1>1, <1>2
  <2>2. ~(rank[k] < rank[m]) /\ ~(rank[m] < rank[k])
    BY <1>5, <2>1
  <2> QED
    BY <1>3, <2>2, BelowOrder
<1>6. rank \in Injection(S, 0 .. n - 1)
  BY <1>4, <1>5 DEF Injection, IsInjective
<1>7. IsFiniteSet(0 .. n - 1) /\ Cardinality(0 .. n - 1) = n
  <2>1. 0 \in Int /\ n - 1 \in Int
    BY <1>1
  <2>2. /\ IsFiniteSet(0 .. n - 1)
        /\ Cardinality(0 .. n - 1) = IF 0 > n - 1 THEN 0 ELSE (n - 1) - 0 + 1
    BY <2>1, FS_Interval
  <2>3. (IF 0 > n - 1 THEN 0 ELSE (n - 1) - 0 + 1) = n
    BY <1>1
  <2> QED
    BY <2>2, <2>3
<1>8. rank \in Surjection(S, 0 .. n - 1)
  BY <1>6, <1>7, FS_Injection
<1>9. o = [i \in 1 .. n |-> pick(i)]
  BY DEF Ordered
<1>10. ASSUME NEW i \in 1 .. n
       PROVE  o[i] \in S /\ rank[o[i]] = i - 1
  <2>1. i - 1 \in 0 .. n - 1
    BY <1>1
  <2>2. PICK k \in S : rank[k] = i - 1
    BY <1>8, <2>1 DEF Surjection
  <2>3. pick(i) \in S /\ Cardinality(under(pick(i))) = i - 1
    BY <1>4, <2>2
  <2>4. o[i] = pick(i)
    BY <1>9
  <2> QED
    BY <1>4, <2>3, <2>4
<1> HIDE DEF o, pick
<1>11. o \in Seq(S) /\ Len(o) = n
  <2>1. o \in [1 .. n -> S]
    BY <1>9, <1>10
  <2> QED
    BY <1>1, <1>9, <2>1, LenProperties, SeqDef
<1>12. ASSUME NEW i \in 1 .. Len(o), NEW j \in 1 .. Len(o), i < j
       PROVE  Below(o[i], o[j])
  <2>1. /\ o[i] \in S /\ o[j] \in S /\ rank[o[i]] = i - 1 /\ rank[o[j]] = j - 1
    BY <1>10, <1>11
  <2>2. rank[o[i]] < rank[o[j]] /\ ~(rank[o[j]] < rank[o[i]]) /\ o[i] # o[j]
    BY <1>1, <1>11, <1>12, <2>1
  <2> QED
    BY <1>3, <2>1, <2>2, BelowOrder
<1>13. ToSet(o) = S
  <2>1. ASSUME NEW k \in S
        PROVE  \E i \in 1 .. n : o[i] = k
    <3>1. rank[k] + 1 \in 1 .. n /\ (rank[k] + 1) - 1 = rank[k]
      BY <1>1, <1>2
    <3> QED
      BY <1>5, <1>10, <3>1
  <2> QED
    BY <1>9, <1>10, <2>1 DEF ToSet
<1> QED
  BY <1>11, <1>12, <1>13 DEF Lists, o

LEMMA CountTo ==
  ASSUME NEW n \in Nat
  PROVE  IsFiniteSet(1 .. n) /\ Cardinality(1 .. n) = n
<1>1. n \in Int /\ 1 \in Int
  OBVIOUS
<1>2. IsFiniteSet(1 .. n) /\ Cardinality(1 .. n) = IF 1 > n THEN 0 ELSE n - 1 + 1
  BY <1>1, FS_Interval
<1>3. (IF 1 > n THEN 0 ELSE n - 1 + 1) = n
  OBVIOUS
<1> QED
  BY <1>2, <1>3

LEMMA ListElements ==
  ASSUME NEW S \in SUBSET MessageKeys, NEW o, Lists(o, S)
  PROVE  /\ Len(o) \in Nat /\ DOMAIN o = 1 .. Len(o)
         /\ \A i \in 1 .. Len(o) : o[i] \in S /\ o[i] \in MessageKeys
         /\ \A k \in S : \E i \in 1 .. Len(o) : o[i] = k
         /\ \A i, j \in 1 .. Len(o) : Below(o[i], o[j]) <=> i < j
         /\ \A i, j \in 1 .. Len(o) : o[i] = o[j] => i = j
<1>1. o \in Seq(S) /\ ToSet(o) = S
  BY DEF Lists
<1>2. /\ Len(o) \in Nat /\ DOMAIN o = 1 .. Len(o)
      /\ \A i \in 1 .. Len(o) : o[i] \in S
  BY <1>1, LenProperties, ElementOfSeq
<1>3. \A k \in S : \E i \in 1 .. Len(o) : o[i] = k
  BY <1>1, <1>2 DEF ToSet
<1>4. ASSUME NEW i \in 1 .. Len(o), NEW j \in 1 .. Len(o)
      PROVE  (Below(o[i], o[j]) <=> i < j) /\ (o[i] = o[j] => i = j)
  <2>1. o[i] \in MessageKeys /\ o[j] \in MessageKeys
    BY <1>2
  <2>2. (i < j => Below(o[i], o[j])) /\ (j < i => Below(o[j], o[i]))
    BY DEF Lists
  <2>3. i < j \/ i = j \/ j < i
    BY <1>2
  <2> QED
    BY <2>1, <2>2, <2>3, BelowOrder
<1> QED
  BY <1>2, <1>3, <1>4

(* iter.Seek: on the key that is looked for, if it is there.                 *)
LEMMA SeekFinds ==
  ASSUME NEW S \in SUBSET MessageKeys, NEW o, Lists(o, S), NEW j \in 1 .. Len(o)
  PROVE  Seek(o, o[j]) = j
<1> DEFINE under == {i \in DOMAIN o : Below(o[i], o[j])}
<1>1. Len(o) \in Nat /\ DOMAIN o = 1 .. Len(o)
  BY ListElements
<1>2. under = 1 .. j - 1
  <2>1. \A i \in 1 .. Len(o) : Below(o[i], o[j]) <=> i < j
    BY ListElements
  <2>2. \A i : i \in 1 .. j - 1 <=> i \in 1 .. Len(o) /\ i < j
    BY <1>1
  <2> QED
    BY <1>1, <2>1, <2>2
<1>3. Seek(o, o[j]) = 1 + Cardinality(under)
  BY DEF Seek
<1>4. j - 1 \in Nat
  BY <1>1
<1> HIDE DEF under
<1>5. Cardinality(under) = j - 1
  BY <1>2, <1>4, CountTo
<1> QED
  BY <1>3, <1>4, <1>5

(* In any case on a key or behind the last.                                  *)
LEMMA SeekInRange ==
  ASSUME NEW S \in SUBSET MessageKeys, NEW o, Lists(o, S), NEW key
  PROVE  Seek(o, key) \in 1 .. Len(o) + 1
<1> DEFINE under == {i \in DOMAIN o : Below(o[i], key)}
<1>1. Len(o) \in Nat /\ DOMAIN o = 1 .. Len(o)
  BY ListElements
<1>2. IsFiniteSet(1 .. Len(o)) /\ Cardinality(1 .. Len(o)) = Len(o)
  BY <1>1, CountTo
<1>3. under \in SUBSET (1 .. Len(o))
  BY <1>1
<1>4. IsFiniteSet(under) /\ Cardinality(under) <= Len(o)
  BY <1>2, <1>3, FS_Subset
<1>5. Cardinality(under) \in Nat
  BY <1>4, FS_CardinalityType
<1> QED
  BY <1>1, <1>4, <1>5 DEF Seek

(* A page before position p has the keys next to it, nearest first; its      *)
(* token, if it has one, is the first of its keys.                           *)
OldPart(page, S, o, p, limit) ==
  /\ page \in Seq(S) /\ IsInjective(page)
  /\ \A k \in ToSet(page) : \E j \in 1 .. Len(o) : j < p /\ k = o[j]
  /\ \A j, l \in 1 .. Len(o) : j < l /\ l < p /\ o[j] \in ToSet(page) => o[l] \in ToSet(page)
  /\ Token(page, limit) # NoToken =>
       \E k \in ToSet(page) : /\ k[2] = Token(page, limit)
                              /\ \A l \in ToSet(page) : ~Below(l, k)

LEMMA PageBefore ==
  ASSUME NEW S \in SUBSET MessageKeys, NEW o, Lists(o, S),
         NEW p \in 0 .. Len(o) + 1, NEW limit \in Nat \ {0}
  PROVE  OldPart(BackFrom(o, p, limit), S, o, p, limit)
<1> DEFINE n == IF p - 1 < limit THEN p - 1 ELSE limit
           page == BackFrom(o, p, limit)
<1>0. /\ Len(o) \in Nat
      /\ \A i \in 1 .. Len(o) : o[i] \in S /\ o[i] \in MessageKeys
      /\ \A i, j \in 1 .. Len(o) : o[i] = o[j] => i = j
      /\ \A i, j \in 1 .. Len(o) : Below(o[i], o[j]) <=> i < j
  BY ListElements, Zenon
<1>1. Len(o) \in Nat /\ p \in Int /\ n \in Int /\ n <= p - 1
  BY <1>0
<1>2. page = [i \in 1 .. n |-> o[p - i]]
  BY DEF BackFrom
<1>3. \A i \in 1 .. n : p - i \in 1 .. Len(o) /\ p - i < p
  BY <1>1
<1> HIDE DEF n, page
<1>4. page \in Seq(S) /\ Len(page) = (IF n < 0 THEN 0 ELSE n) /\ DOMAIN page = 1 .. n
  <2> DEFINE m == IF n < 0 THEN 0 ELSE n
  <2>1. m \in Nat /\ 1 .. n = 1 .. m
    BY <1>1
  <2> HIDE DEF m
  <2>2. page \in [1 .. m -> S] /\ DOMAIN page = 1 .. n
    BY <1>0, <1>1, <1>2, <1>3, <2>1
  <2>3. page \in Seq(S)
    BY <2>1, <2>2, SeqDef
  <2>4. Len(page) \in Nat /\ DOMAIN page = 1 .. Len(page)
    BY <2>3, LenProperties
  <2>5. Len(page) = m
    BY <2>1, <2>2, <2>4
  <2> QED
    BY <2>2, <2>3, <2>5 DEF m
<1>5. IsInjective(page)
  <2> SUFFICES ASSUME NEW i \in 1 .. n, NEW j \in 1 .. n, page[i] = page[j] PROVE i = j
    BY <1>4 DEF IsInjective
  <2>1. o[p - i] = o[p - j] /\ p - i \in 1 .. Len(o) /\ p - j \in 1 .. Len(o)
    BY <1>2, <1>3
  <2>2. p - i = p - j
    BY <1>0, <2>1
  <2> QED
    BY <1>1, <2>2
<1>6. \A k : k \in ToSet(page) <=> \E i \in 1 .. n : k = o[p - i]
  BY <1>2, <1>4 DEF ToSet
<1>7. ASSUME NEW k \in ToSet(page)
      PROVE  \E j \in 1 .. Len(o) : j < p /\ k = o[j]
  BY <1>3, <1>6
<1>8. ASSUME NEW j \in 1 .. Len(o), NEW l \in 1 .. Len(o), j < l, l < p, o[j] \in ToSet(page)
      PROVE  o[l] \in ToSet(page)
  <2>1. PICK i \in 1 .. n : o[j] = o[p - i]
    BY <1>6, <1>8
  <2>2. j = p - i
    BY <1>0, <1>1, <1>3, <2>1
  <2>3. p - l \in 1 .. n /\ l = p - (p - l)
    BY <1>1, <1>8, <2>2
  <2> QED
    BY <1>6, <2>3
<1>9. ASSUME Token(page, limit) # NoToken
      PROVE  \E k \in ToSet(page) : /\ k[2] = Token(page, limit)
                                    /\ \A l \in ToSet(page) : ~Below(l, k)
  <2>1. /\ page # << >> /\ Token(page, limit) = page[Len(page)][2]
    BY <1>9 DEF Token
  <2>2. n >= 1 /\ Len(page) = n
    BY <1>1, <1>4, <2>1, EmptySeq
  <2>3. page[n] = o[p - n] /\ page[n] \in ToSet(page)
    <3>1. n \in 1 .. n
      BY <1>1, <2>2
    <3>2. page[n] = o[p - n]
      BY <1>2, <3>1
    <3> QED
      BY <1>6, <3>1, <3>2
  <2>4. ASSUME NEW l \in ToSet(page)
        PROVE  ~Below(l, page[n])
    <3>1. PICK i \in 1 .. n : l = o[p - i]
      BY <1>6
    <3>2. ~(p - i < p - n) /\ p - i \in 1 .. Len(o) /\ p - n \in 1 .. Len(o)
      BY <1>1, <1>3, <2>2
    <3> QED
      BY <1>0, <2>3, <3>1, <3>2
  <2> QED
    BY <2>1, <2>2, <2>3, <2>4
<1> QED
  BY <1>4, <1>5, <1>7, <1>8, <1>9 DEF page, OldPart

(* A page behind position p, likewise; its token is the last of its keys.    *)
NewPart(page, S, o, p, limit) ==
  /\ page \in Seq(S) /\ IsInjective(page)
  /\ \A k \in ToSet(page) : \E j \in 1 .. Len(o) : p < j /\ k = o[j]
  /\ \A j, l \in 1 .. Len(o) : p < l /\ l < j /\ o[j] \in ToSet(page) => o[l] \in ToSet(page)
  /\ Token(page, limit) # NoToken =>
       \E k \in ToSet(page) : /\ k[2] = Token(page, limit)
                              /\ \A l \in ToSet(page) : ~Below(k, l)

LEMMA PageAfter ==
  ASSUME NEW S \in SUBSET MessageKeys, NEW o, Lists(o, S),
         NEW p \in 0 .. Len(o) + 1, NEW limit \in Nat \ {0}
  PROVE  NewPart(OnFrom(o, p, limit), S, o, p, limit)
<1> DEFINE n == IF Len(o) - p < limit THEN Len(o) - p ELSE limit
           page == OnFrom(o, p, limit)
<1>0. /\ Len(o) \in Nat
      /\ \A i \in 1 .. Len(o) : o[i] \in S /\ o[i] \in MessageKeys
      /\ \A i, j \in 1 .. Len(o) : o[i] = o[j] => i = j
      /\ \A i, j \in 1 .. Len(o) : Below(o[i], o[j]) <=> i < j
  BY ListElements, Zenon
<1>1. Len(o) \in Nat /\ p \in Int /\ n \in Int /\ n <= Len(o) - p
  BY <1>0
<1>2. page = [i \in 1 .. n |-> o[p + i]]
  BY DEF OnFrom
<1>3. \A i \in 1 .. n : p + i \in 1 .. Len(o) /\ p < p + i
  BY <1>1
<1> HIDE DEF n, page
<1>4. page \in Seq(S) /\ Len(page) = (IF n < 0 THEN 0 ELSE n) /\ DOMAIN page = 1 .. n
  <2> DEFINE m == IF n < 0 THEN 0 ELSE n
  <2>1. m \in Nat /\ 1 .. n = 1 .. m
    BY <1>1
  <2> HIDE DEF m
  <2>2. page \in [1 .. m -> S] /\ DOMAIN page = 1 .. n
    BY <1>0, <1>1, <1>2, <1>3, <2>1
  <2>3. page \in Seq(S)
    BY <2>1, <2>2, SeqDef
  <2>4. Len(page) \in Nat /\ DOMAIN page = 1 .. Len(page)
    BY <2>3, LenProperties
  <2>5. Len(page) = m
    BY <2>1, <2>2, <2>4
  <2> QED
    BY <2>2, <2>3, <2>5 DEF m
<1>5. IsInjective(page)
  <2> SUFFICES ASSUME NEW i \in 1 .. n, NEW j \in 1 .. n, page[i] = page[j] PROVE i = j
    BY <1>4 DEF IsInjective
  <2>1. o[p + i] = o[p + j] /\ p + i \in 1 .. Len(o) /\ p + j \in 1 .. Len(o)
    BY <1>2, <1>3
  <2>2. p + i = p + j
    BY <1>0, <2>1
  <2> QED
    BY <1>1, <2>2
<1>6. \A k : k \in ToSet(page) <=> \E i \in 1 .. n : k = o[p + i]
  BY <1>2, <1>4 DEF ToSet
<1>7. ASSUME NEW k \in ToSet(page)
      PROVE  \E j \in 1 .. Len(o) : p < j /\ k = o[j]
  BY <1>3, <1>6
<1>8. ASSUME NEW j \in 1 .. Len(o), NEW l \in 1 .. Len(o), p < l, l < j, o[j] \in ToSet(page)
      PROVE  o[l] \in ToSet(page)
  <2>1. PICK i \in 1 .. n : o[j] = o[p + i]
    BY <1>6, <1>8
  <2>2. j = p + i
    BY <1>0, <1>1, <1>3, <2>1
  <2>3. l - p \in 1 .. n /\ l = p + (l - p)
    BY <1>1, <1>8, <2>2
  <2> QED
    BY <1>6, <2>3
<1>9. ASSUME Token(page, limit) # NoToken
      PROVE  \E k \in ToSet(page) : /\ k[2] = Token(page, limit)
                                    /\ \A l \in ToSet(page) : ~Below(k, l)
  <2>1. /\ page # << >> /\ Token(page, limit) = page[Len(page)][2]
    BY <1>9 DEF Token
  <2>2. n >= 1 /\ Len(page) = n
    BY <1>1, <1>4, <2>1, EmptySeq
  <2>3. page[n] = o[p + n] /\ page[n] \in ToSet(page)
    <3>1. n \in 1 .. n
      BY <1>1, <2>2
    <3>2. page[n] = o[p + n]
      BY <1>2, <3>1
    <3> QED
      BY <1>6, <3>1, <3>2
  <2>4. ASSUME NEW l \in ToSet(page)
        PROVE  ~Below(page[n], l)
    <3>1. PICK i \in 1 .. n : l = o[p + i]
      BY <1>6
    <3>2. ~(p + n < p + i) /\ p + i \in 1 .. Len(o) /\ p + n \in 1 .. Len(o)
      BY <1>1, <1>3, <2>2
    <3> QED
      BY <1>0, <2>3, <3>1, <3>2
  <2> QED
    BY <2>1, <2>2, <2>3, <2>4
<1> QED
  BY <1>4, <1>5, <1>7, <1>8, <1>9 DEF page, NewPart

(* A token is the ID of a key of the page, or none.                          *)
LEMMA TokenIsId ==
  ASSUME NEW page \in Seq(MessageKeys), NEW limit \in Nat
  PROVE  Token(page, limit) \in Ids \cup {NoToken}
<1>1. CASE page # << >> /\ Len(page) < limit
  <2>1. Len(page) \in 1 .. Len(page)
    BY <1>1, LenProperties, EmptySeq
  <2>2. page[Len(page)] \in MessageKeys
    BY <2>1, ElementOfSeq
  <2> QED
    BY <1>1, <2>2, KeyIsPair DEF Token
<1>2. CASE ~(page # << >> /\ Len(page) < limit)
  BY <1>2 DEF Token
<1> QED
  BY <1>1, <1>2

LEMMA ConcatHas ==
  ASSUME NEW S, NEW s \in Seq(S), NEW t \in Seq(S)
  PROVE  /\ s \o t \in Seq(S) /\ ToSet(s \o t) = ToSet(s) \cup ToSet(t)
         /\ IsInjective(s) /\ IsInjective(t) /\ ToSet(s) \cap ToSet(t) = {} => IsInjective(s \o t)
<1>1. /\ s \o t \in Seq(S) /\ Len(s \o t) = Len(s) + Len(t)
      /\ \A i \in 1 .. Len(s) + Len(t) : (s \o t)[i] = IF i <= Len(s) THEN s[i] ELSE t[i - Len(s)]
  BY ConcatProperties
<1>2. /\ Len(s) \in Nat /\ DOMAIN s = 1 .. Len(s) /\ Len(t) \in Nat /\ DOMAIN t = 1 .. Len(t)
      /\ DOMAIN (s \o t) = 1 .. Len(s) + Len(t)
  BY <1>1, LenProperties
<1>3. \A i \in 1 .. Len(t) : /\ Len(s) + i \in 1 .. Len(s) + Len(t)
                            /\ (s \o t)[Len(s) + i] = t[i]
  BY <1>1, <1>2
<1>4. \A i \in 1 .. Len(s) : i \in 1 .. Len(s) + Len(t) /\ (s \o t)[i] = s[i]
  BY <1>1, <1>2
<1>5. \A i \in 1 .. Len(s) + Len(t) :
        \/ i \in 1 .. Len(s) /\ (s \o t)[i] = s[i]
        \/ i - Len(s) \in 1 .. Len(t) /\ (s \o t)[i] = t[i - Len(s)]
  BY <1>1, <1>2
<1>6. ToSet(s \o t) = ToSet(s) \cup ToSet(t)
  <2>1. ASSUME NEW x \in ToSet(s \o t) PROVE x \in ToSet(s) \cup ToSet(t)
    BY <1>2, <1>5 DEF ToSet
  <2>2. ASSUME NEW x \in ToSet(s) PROVE x \in ToSet(s \o t)
    BY <1>2, <1>4 DEF ToSet
  <2>3. ASSUME NEW x \in ToSet(t) PROVE x \in ToSet(s \o t)
    BY <1>2, <1>3 DEF ToSet
  <2> QED
    BY <2>1, <2>2, <2>3
<1>7. ASSUME IsInjective(s), IsInjective(t), ToSet(s) \cap ToSet(t) = {}
      PROVE  IsInjective(s \o t)
  <2> SUFFICES ASSUME NEW i \in 1 .. Len(s) + Len(t), NEW j \in 1 .. Len(s) + Len(t),
                      (s \o t)[i] = (s \o t)[j]
               PROVE  i = j
    BY <1>2 DEF IsInjective
  <2>1. \A k \in 1 .. Len(s), l \in 1 .. Len(t) : s[k] # t[l]
    BY <1>2, <1>7 DEF ToSet
  <2>2. CASE i \in 1 .. Len(s) /\ j \in 1 .. Len(s)
    BY <1>2, <1>4, <1>7, <2>2 DEF IsInjective
  <2>3. CASE i - Len(s) \in 1 .. Len(t) /\ j - Len(s) \in 1 .. Len(t)
    <3>1. t[i - Len(s)] = t[j - Len(s)]
      BY <1>1, <1>2, <2>3
    <3>2. i - Len(s) = j - Len(s)
      BY <1>2, <1>7, <2>3, <3>1 DEF IsInjective
    <3> QED
      BY <1>2, <3>2
  <2> QED
    BY <1>5, <2>1, <2>2, <2>3
<1> QED
  BY <1>1, <1>6, <1>7
-----------------------------------------------------------------------------
(* The inductive invariant of the walk.  What the client has at hand are the *)
(* messages it was returned and the one it began at.                         *)
AtHand == ToSet(seen) \cup ({walk.anchor} \cap asOf)

(* Between two keys of H there is none of S that H does not have.            *)
NoGap(H, S) ==
  \A k \in S, a, b \in H : Below(a, k) /\ Below(k, b) => k \in H

(* Each token is the end, of its direction, of what is at hand.              *)
WalkInv ==
  /\ IsInjective(seen)
  /\ \A k \in ToSet(seen) : k \in stored /\ k[1] = walk.channel
  /\ walk.anchor \in asOf => walk.anchor[1] = walk.channel /\ NoGap(AtHand, asOf)
  /\ walk.prev # NoToken =>
       /\ <<walk.channel, walk.prev>> \in ToSet(seen)
       /\ \A k \in AtHand : ~Below(k, <<walk.channel, walk.prev>>)
  /\ walk.next # NoToken =>
       /\ <<walk.channel, walk.next>> \in ToSet(seen)
       /\ \A k \in AtHand : ~Below(<<walk.channel, walk.next>>, k)

StoreInv ==
  /\ StoreTypeOK /\ IsFiniteSet(stored) /\ asOf \subseteq stored
  /\ walk.prev # NoToken \/ walk.next # NoToken =>
       walk.channel \in Channels /\ walk.limit \in Limits
  /\ Alone(walk.channel) => WalkInv

(* The keys the iterator walks are, of a channel whose ID no other           *)
(* continues, those of its messages.                                         *)
LEMMA RangeOfChannel ==
  ASSUME stored \in SUBSET MessageKeys, IsFiniteSet(stored), NEW c \in Channels
  PROVE  /\ InRange(c) \in SUBSET MessageKeys /\ InRange(c) \subseteq stored
         /\ IsFiniteSet(InRange(c))
         /\ Alone(c) => \A k \in stored : k \in InRange(c) <=> k[1] = c
<1>1. InRange(c) \in SUBSET stored
  BY DEF InRange
<1>2. IsFiniteSet(InRange(c))
  BY <1>1, FS_Subset
<1>3. Alone(c) => \A k \in stored : k \in InRange(c) <=> k[1] = c
  BY KeyIsPair DEF Alone, InRange
<1> QED
  BY <1>1, <1>2, <1>3

(* A page of older keys, put behind what is at hand, leaves no gap.          *)
LEMMA GrowsDown ==
  ASSUME NEW S \in SUBSET MessageKeys, NEW H \in SUBSET MessageKeys, NEW c,
         NEW P \in SUBSET S, NEW e \in H, NEW A \in SUBSET MessageKeys,
         \A k \in A : k[1] = c => k \in S,
         \A k \in H \cup P : k[1] = c,
         \A k \in P : Below(k, e), \A k \in H : ~Below(k, e),
         \A k \in S, a \in P : Below(a, k) /\ Below(k, e) => k \in P,
         NoGap(H, A)
  PROVE  NoGap(H \cup P, A)
<1> SUFFICES ASSUME NEW k \in A, NEW a \in H \cup P, NEW b \in H \cup P,
                    Below(a, k), Below(k, b)
             PROVE  k \in H \cup P
  BY DEF NoGap
<1>1. k[1] = c /\ k \in S
  BY BetweenInChannel
<1>2. CASE a \in H /\ b \in H
  BY <1>2 DEF NoGap
<1>3. CASE a \in P
  <2>1. CASE Below(k, e)
    BY <1>1, <1>3, <2>1
  <2>2. CASE k = e
    BY <2>2
  <2>3. CASE Below(e, k)
    <3>1. b \notin P
      BY <2>3, BelowOrder
    <3> QED
      BY <2>3, <3>1 DEF NoGap
  <2> QED
    BY <2>1, <2>2, <2>3, BelowOrder
<1>4. CASE a \in H /\ b \in P
  <2>1. Below(k, e)
    BY <1>4, BelowOrder
  <2>2. Below(a, e)
    BY <2>1, BelowOrder
  <2> QED
    BY <1>4, <2>2
<1> QED
  BY <1>2, <1>3, <1>4

(* A page of newer keys likewise.                                            *)
LEMMA GrowsUp ==
  ASSUME NEW S \in SUBSET MessageKeys, NEW H \in SUBSET MessageKeys, NEW c,
         NEW P \in SUBSET S, NEW e \in H, NEW A \in SUBSET MessageKeys,
         \A k \in A : k[1] = c => k \in S,
         \A k \in H \cup P : k[1] = c,
         \A k \in P : Below(e, k), \A k \in H : ~Below(e, k),
         \A k \in S, a \in P : Below(e, k) /\ Below(k, a) => k \in P,
         NoGap(H, A)
  PROVE  NoGap(H \cup P, A)
<1> SUFFICES ASSUME NEW k \in A, NEW a \in H \cup P, NEW b \in H \cup P,
                    Below(a, k), Below(k, b)
             PROVE  k \in H \cup P
  BY DEF NoGap
<1>1. k[1] = c /\ k \in S
  BY BetweenInChannel
<1>2. CASE a \in H /\ b \in H
  BY <1>2 DEF NoGap
<1>3. CASE b \in P
  <2>1. CASE Below(e, k)
    BY <1>1, <1>3, <2>1
  <2>2. CASE k = e
    BY <2>2
  <2>3. CASE Below(k, e)
    <3>1. a \notin P
      BY <2>3, BelowOrder
    <3> QED
      BY <2>3, <3>1 DEF NoGap
  <2> QED
    BY <2>1, <2>2, <2>3, BelowOrder
<1>4. CASE a \in P /\ b \in H
  <2>1. Below(e, k)
    BY <1>4, BelowOrder
  <2>2. Below(e, b)
    BY <2>1, BelowOrder
  <2> QED
    BY <1>4, <2>2
<1> QED
  BY <1>2, <1>3, <1>4


(* Either page of a request, empty where its direction leaves it out.        *)
LEMMA EmptyPage ==
  ASSUME NEW S, NEW limit
  PROVE  /\ << >> \in Seq(S) /\ IsInjective(<< >>) /\ ToSet(<< >>) = {}
         /\ Token(<< >>, limit) = NoToken
<1>1. << >> \in Seq(S) /\ DOMAIN << >> = {}
  BY EmptySeq
<1> QED
  BY <1>1 DEF IsInjective, ToSet, Token

LEMMA StoreInitially == StoreInit => StoreInv
<1> SUFFICES ASSUME StoreInit PROVE StoreInv
  OBVIOUS
<1>1. << >> \in Seq(MessageKeys) /\ IsInjective(<< >>) /\ ToSet(<< >>) = {}
  BY EmptyPage
<1>2. StoreTypeOK
  BY <1>1 DEF StoreInit, StoreTypeOK, NoToken
<1>3. IsFiniteSet(stored)
  BY FS_EmptySet DEF StoreInit
<1>4. /\ asOf = {} /\ stored = {} /\ seen = << >>
      /\ walk.prev = NoToken /\ walk.next = NoToken
  BY DEF StoreInit
<1> QED
  BY <1>1, <1>2, <1>3, <1>4 DEF StoreInv, WalkInv

LEMMA SaveMessageStep ==
  ASSUME StoreInv, NEW k \in MessageKeys, SaveMessage(k)
  PROVE  StoreInv'
<1>1. stored' = stored \cup {k} /\ walk' = walk /\ seen' = seen /\ asOf' = asOf
  BY DEF SaveMessage
<1>2. IsFiniteSet(stored')
  BY <1>1, FS_AddElement DEF StoreInv
<1>3. StoreTypeOK'
  BY <1>1 DEF StoreInv, StoreTypeOK
<1>4. AtHand' = AtHand /\ Alone(walk.channel)' = Alone(walk.channel)
  BY <1>1 DEF AtHand, Alone
<1>5. Alone(walk.channel) => WalkInv'
  <2> HAVE Alone(walk.channel)
  <2>1. WalkInv
    BY DEF StoreInv
  <2>2. NoGap(AtHand, asOf)' = NoGap(AtHand, asOf)
    BY <1>1, <1>4 DEF NoGap
  <2> QED
    BY <1>1, <1>4, <2>1, <2>2 DEF WalkInv
<1> QED
  BY <1>1, <1>2, <1>3, <1>4, <1>5 DEF StoreInv

LEMMA StoreStutters ==
  ASSUME StoreInv, UNCHANGED storeVars
  PROVE  StoreInv'
<1>1. stored' = stored /\ walk' = walk /\ seen' = seen /\ asOf' = asOf
  BY DEF storeVars
<1> QED
  BY <1>1 DEF StoreInv, StoreTypeOK, WalkInv, AtHand, NoGap, Alone


(* The two pages of a request, of which the direction may leave out one.     *)
LEMMA OldPage ==
  ASSUME NEW S \in SUBSET MessageKeys, NEW o, Lists(o, S), NEW P,
         NEW p \in 0 .. Len(o) + 1, NEW limit \in Nat \ {0},
         P = BackFrom(o, p, limit) \/ P = << >>
  PROVE  OldPart(P, S, o, p, limit)
<1>1. CASE P = << >>
  BY <1>1, EmptyPage DEF OldPart
<1>2. CASE P = BackFrom(o, p, limit)
  BY <1>2, PageBefore, Zenon
<1> QED
  BY <1>1, <1>2

LEMMA NewPage ==
  ASSUME NEW S \in SUBSET MessageKeys, NEW o, Lists(o, S), NEW P,
         NEW p \in 0 .. Len(o) + 1, NEW limit \in Nat \ {0},
         P = OnFrom(o, p, limit) \/ P = << >>
  PROVE  NewPart(P, S, o, p, limit)
<1>1. CASE P = << >>
  BY <1>1, EmptyPage DEF NewPart
<1>2. CASE P = OnFrom(o, p, limit)
  BY <1>2, PageAfter, Zenon
<1> QED
  BY <1>1, <1>2

LEMMA SeqOfMore ==
  ASSUME NEW S, NEW T, S \subseteq T, NEW s \in Seq(S)
  PROVE  s \in Seq(T) /\ ToSet(s) \subseteq S
<1>1. Len(s) \in Nat /\ DOMAIN s = 1 .. Len(s) /\ \A i \in 1 .. Len(s) : s[i] \in S
  BY LenProperties, ElementOfSeq
<1>2. s \in [1 .. Len(s) -> T]
  BY <1>1, LenProperties
<1> QED
  BY <1>1, <1>2, SeqDef DEF ToSet


(* The first page begins at a message of the channel, and has what lies next *)
(* to it on both sides that were asked for.                                  *)
LEMMA FirstPageStep ==
  ASSUME StoreInv, NEW c \in Channels, NEW next \in Ids \cup {NoToken},
         NEW d \in Directions, NEW limit \in Limits, FirstPage(c, next, d, limit)
  PROVE  StoreInv'
<1> DEFINE S == InRange(c)
           o == Ordered(S)
           p == IF next = NoToken THEN Len(o) ELSE Seek(o, <<c, next>>)
           prevs == IF d \in {"before", "around"} THEN BackFrom(o, p, limit) ELSE << >>
           nexts == IF d \in {"after", "around"} THEN OnFrom(o, p, limit) ELSE << >>
           anchor == IF next = NoToken THEN Newest(c) ELSE <<c, next>>
<1>1. /\ S \in SUBSET MessageKeys /\ S \subseteq stored /\ IsFiniteSet(S)
      /\ Alone(c) => \A k \in stored : k \in S <=> k[1] = c
  BY RangeOfChannel DEF StoreInv, StoreTypeOK
<1>2. Lists(o, S) /\ Len(o) = Cardinality(S)
  BY <1>1, OrderedLists
<1>3. /\ Len(o) \in Nat
      /\ \A i \in 1 .. Len(o) : o[i] \in S /\ o[i] \in MessageKeys
      /\ \A k \in S : \E i \in 1 .. Len(o) : o[i] = k
      /\ \A i, j \in 1 .. Len(o) : Below(o[i], o[j]) <=> i < j
      /\ \A i, j \in 1 .. Len(o) : o[i] = o[j] => i = j
  BY <1>1, <1>2, ListElements, Zenon
<1>4. p \in 0 .. Len(o) + 1
  <2>1. Seek(o, <<c, next>>) \in 1 .. Len(o) + 1
    BY <1>1, <1>2, SeekInRange, Zenon
  <2> QED
    BY <1>3, <2>1
<1>5. limit \in Nat \ {0}
  BY StoreAssumption
<1>6. OldPart(prevs, S, o, p, limit)
  BY <1>1, <1>2, <1>4, <1>5, OldPage, Zenon
<1>7. NewPart(nexts, S, o, p, limit)
  BY <1>1, <1>2, <1>4, <1>5, NewPage, Zenon
<1>8. /\ stored' = stored /\ asOf' = stored /\ seen' = prevs \o nexts
      /\ walk' = [channel |-> c, limit |-> limit, anchor |-> anchor,
                  prev |-> Token(prevs, limit), next |-> Token(nexts, limit)]
  <2>1. GetMessageList(c, next, d, limit) = [prevs |-> prevs, nexts |-> nexts]
    BY DEF GetMessageList
  <2>2. d = "after" => Token(prevs, limit) = NoToken
    BY EmptyPage
  <2>3. d = "before" => Token(nexts, limit) = NoToken
    BY EmptyPage
  <2> HIDE DEF prevs, nexts
  <2>4. /\ MessageListPage(c, next, d, limit).data = prevs \o nexts
        /\ MessageListPage(c, next, d, limit).prev =
             IF d = "after" THEN Token(nexts, limit) ELSE Token(prevs, limit)
        /\ MessageListPage(c, next, d, limit).next =
             IF d = "before" THEN Token(prevs, limit) ELSE Token(nexts, limit)
    BY <2>1 DEF MessageListPage
  <2>5. (IF d = "after" THEN NoToken ELSE MessageListPage(c, next, d, limit).prev)
           = Token(prevs, limit)
    BY <2>2, <2>4
  <2>6. (IF d = "before" THEN NoToken ELSE MessageListPage(c, next, d, limit).next)
           = Token(nexts, limit)
    BY <2>3, <2>4
  <2> HIDE DEF anchor
  <2> QED
    BY <2>4, <2>5, <2>6 DEF FirstPage, anchor
<1>9. anchor \in MessageKeys =>
        \/ p \in 1 .. Len(o) /\ anchor = o[p]
        \/ anchor \notin stored
  <2>1. CASE next = NoToken
    <3>1. CASE S = {}
      <4>1. anchor = << >>
        BY <2>1, <3>1 DEF Newest
      <4>2. << >> \notin MessageKeys
        BY DEF MessageKeys
      <4> QED
        BY <4>1, <4>2
    <3>2. CASE S # {}
      <4>1. Len(o) \in 1 .. Len(o)
        BY <1>3, <3>2
      <4>2. anchor = o[Len(o)]
        BY <1>2, <2>1, <3>2 DEF Newest
      <4> QED
        BY <2>1, <4>1, <4>2
    <3> QED
      BY <3>1, <3>2
  <2>2. CASE next # NoToken
    <3> SUFFICES ASSUME <<c, next>> \in stored
                 PROVE  p \in 1 .. Len(o) /\ <<c, next>> = o[p]
      BY <2>2
    <3>1. <<c, next>> \in S
      BY DEF InRange
    <3>2. PICK i \in 1 .. Len(o) : o[i] = <<c, next>>
      BY <1>3, <3>1
    <3>3. Seek(o, <<c, next>>) = i
      BY <1>1, <1>2, <3>2, SeekFinds
    <3> QED
      BY <2>2, <3>2, <3>3
  <2> QED
    BY <2>1, <2>2
<1>10. anchor \in MessageKeys \cup {<< >>}
  <2>1. CASE next = NoToken /\ S = {}
    BY <2>1 DEF Newest
  <2>2. CASE next = NoToken /\ S # {}
    <3>1. Cardinality(S) \in 1 .. Len(o)
      BY <1>2, <1>3, <2>2
    <3> QED
      BY <1>3, <2>2, <3>1 DEF Newest
  <2>3. CASE next # NoToken
    BY <2>3 DEF MessageKeys
  <2> QED
    BY <2>1, <2>2, <2>3
<1> HIDE DEF S, o, p, prevs, nexts, anchor
<1>11. prevs \in Seq(MessageKeys) /\ nexts \in Seq(MessageKeys)
  BY <1>1, <1>6, <1>7, SeqOfMore, Zenon DEF OldPart, NewPart
<1>12. /\ seen' \in Seq(MessageKeys) /\ ToSet(seen') = ToSet(prevs) \cup ToSet(nexts)
       /\ IsInjective(seen')
  <2>1. ToSet(prevs) \cap ToSet(nexts) = {}
    <3> SUFFICES ASSUME NEW k \in ToSet(prevs), k \in ToSet(nexts) PROVE FALSE
      OBVIOUS
    <3>1. PICK i \in 1 .. Len(o) : i < p /\ k = o[i]
      BY <1>6 DEF OldPart
    <3>2. PICK j \in 1 .. Len(o) : p < j /\ k = o[j]
      BY <1>7 DEF NewPart
    <3>3. i = j
      BY <1>3, <3>1, <3>2, Zenon
    <3> QED
      BY <1>3, <1>4, <3>1, <3>2, <3>3
  <2> QED
    BY <1>6, <1>7, <1>8, <1>11, <2>1, ConcatHas DEF OldPart, NewPart
<1>13. StoreTypeOK'
  <2>1. Token(prevs, limit) \in Ids \cup {NoToken} /\ Token(nexts, limit) \in Ids \cup {NoToken}
    BY <1>5, <1>11, TokenIsId
  <2> QED
    BY <1>8, <1>10, <1>12, <2>1 DEF StoreInv, StoreTypeOK
<1>14. ASSUME Alone(c)
       PROVE  WalkInv'
  <2>1. AtHand' = ToSet(prevs) \cup ToSet(nexts) \cup ({anchor} \cap stored)
    BY <1>8, <1>12 DEF AtHand
  <2>2. anchor \in stored => p \in 1 .. Len(o) /\ anchor = o[p]
    BY <1>9 DEF StoreInv, StoreTypeOK
  <2>3. ASSUME NEW k \in AtHand'
        PROVE  \E i \in 1 .. Len(o) : /\ k = o[i]
                                      /\ i < p => k \in ToSet(prevs)
                                      /\ p < i => k \in ToSet(nexts)
    <3>1. CASE k \in ToSet(prevs)
      <4>1. PICK i \in 1 .. Len(o) : i < p /\ k = o[i]
        BY <1>6, <3>1 DEF OldPart
      <4> QED
        BY <1>4, <3>1, <4>1
    <3>2. CASE k \in ToSet(nexts)
      <4>1. PICK i \in 1 .. Len(o) : p < i /\ k = o[i]
        BY <1>7, <3>2 DEF NewPart
      <4> QED
        BY <1>4, <3>2, <4>1
    <3>3. CASE k = anchor /\ anchor \in stored
      BY <1>4, <2>2, <3>3
    <3> QED
      BY <2>1, <3>1, <3>2, <3>3
  <2>4. \A k \in AtHand' : k \in stored /\ k[1] = c
    BY <1>1, <1>3, <1>14, <2>3
  <2>5. ASSUME anchor \in stored
        PROVE  anchor[1] = c /\ NoGap(AtHand', stored)
    <3>1. p \in 1 .. Len(o) /\ anchor = o[p] /\ anchor \in AtHand'
      BY <2>1, <2>2, <2>5
    <3> SUFFICES ASSUME NEW k \in stored, NEW a \in AtHand', NEW b \in AtHand',
                        Below(a, k), Below(k, b)
                 PROVE  k \in AtHand'
      BY <2>4, <3>1 DEF NoGap
    <3>2. k[1] = c
      BY <2>4, BetweenInChannel DEF StoreInv, StoreTypeOK
    <3>3. PICK j \in 1 .. Len(o) : k = o[j]
      BY <1>1, <1>3, <1>14, <3>2
    <3>4. PICK i \in 1 .. Len(o) : a = o[i] /\ (i < p => a \in ToSet(prevs))
      BY <2>3
    <3>5. PICK l \in 1 .. Len(o) : b = o[l] /\ (p < l => b \in ToSet(nexts))
      BY <2>3
    <3>6. i < j /\ j < l
      BY <1>3, <3>3, <3>4, <3>5
    <3>7. CASE j < p
      <4>1. o[i] \in ToSet(prevs)
        BY <1>4, <3>4, <3>6, <3>7
      <4> QED
        BY <1>6, <2>1, <3>3, <3>6, <3>7, <4>1 DEF OldPart
    <3>8. CASE p < j
      <4>1. o[l] \in ToSet(nexts)
        BY <1>4, <3>5, <3>6, <3>8
      <4> QED
        BY <1>7, <2>1, <3>3, <3>6, <3>8, <4>1 DEF NewPart
    <3> QED
      BY <1>4, <3>1, <3>3, <3>7, <3>8
  <2>6. ASSUME Token(prevs, limit) # NoToken
        PROVE  /\ <<c, Token(prevs, limit)>> \in ToSet(seen')
               /\ \A k \in AtHand' : ~Below(k, <<c, Token(prevs, limit)>>)
    <3>1. PICK e \in ToSet(prevs) : /\ e[2] = Token(prevs, limit)
                                    /\ \A l \in ToSet(prevs) : ~Below(l, e)
      BY <1>6, <2>6 DEF OldPart
    <3>2. PICK i \in 1 .. Len(o) : i < p /\ e = o[i]
      BY <1>6 DEF OldPart
    <3>3. e \in AtHand' /\ e \in MessageKeys /\ e[1] = c
      BY <1>3, <2>1, <2>4, <3>2
    <3>4. e = <<c, Token(prevs, limit)>>
      BY <3>1, <3>3, KeyIsPair
    <3>5. ASSUME NEW k \in AtHand'
          PROVE  ~Below(k, e)
      <4>1. PICK j \in 1 .. Len(o) : k = o[j] /\ (j < p => k \in ToSet(prevs))
        BY <2>3
      <4>2. CASE j < p
        BY <3>1, <4>1, <4>2
      <4>3. CASE ~(j < p)
        BY <1>3, <1>4, <3>2, <4>1, <4>3
      <4> QED
        BY <4>2, <4>3
    <3> QED
      BY <1>12, <3>4, <3>5
  <2>7. ASSUME Token(nexts, limit) # NoToken
        PROVE  /\ <<c, Token(nexts, limit)>> \in ToSet(seen')
               /\ \A k \in AtHand' : ~Below(<<c, Token(nexts, limit)>>, k)
    <3>1. PICK e \in ToSet(nexts) : /\ e[2] = Token(nexts, limit)
                                    /\ \A l \in ToSet(nexts) : ~Below(e, l)
      BY <1>7, <2>7 DEF NewPart
    <3>2. PICK i \in 1 .. Len(o) : p < i /\ e = o[i]
      BY <1>7 DEF NewPart
    <3>3. e \in AtHand' /\ e \in MessageKeys /\ e[1] = c
      BY <1>3, <2>1, <2>4, <3>2
    <3>4. e = <<c, Token(nexts, limit)>>
      BY <3>1, <3>3, KeyIsPair
    <3>5. ASSUME NEW k \in AtHand'
          PROVE  ~Below(e, k)
      <4>1. PICK j \in 1 .. Len(o) : k = o[j] /\ (p < j => k \in ToSet(nexts))
        BY <2>3
      <4>2. CASE p < j
        BY <3>1, <4>1, <4>2
      <4>3. CASE ~(p < j)
        BY <1>3, <1>4, <3>2, <4>1, <4>3
      <4> QED
        BY <4>2, <4>3
    <3> QED
      BY <1>12, <3>4, <3>5
  <2>8. \A k \in ToSet(seen') : k \in stored /\ k[1] = c
    BY <1>12, <2>1, <2>4
  <2>9. /\ walk'.channel = c /\ walk'.anchor = anchor
        /\ walk'.prev = Token(prevs, limit) /\ walk'.next = Token(nexts, limit)
    BY <1>8
  <2> QED
    BY <1>8, <1>12, <2>5, <2>6, <2>7, <2>8, <2>9 DEF WalkInv
<1>15. /\ IsFiniteSet(stored)' /\ (asOf \subseteq stored)'
       /\ walk'.channel = c /\ walk'.limit = limit
  BY <1>8 DEF StoreInv
<1>16. Alone(walk'.channel) => WalkInv'
  BY <1>14, <1>15
<1> QED
  BY <1>13, <1>15, <1>16 DEF StoreInv, Alone


(* A page of older messages goes on where the token points.                  *)
LEMMA OlderPageStep ==
  ASSUME StoreInv, OlderPage
  PROVE  StoreInv'
<1> DEFINE c == walk.channel
           S == InRange(c)
           o == Ordered(S)
           e == <<c, walk.prev>>
           p == Seek(o, e)
           P == BackFrom(o, p, walk.limit)
<1>1. /\ c \in Channels /\ walk.limit \in Limits /\ walk.prev # NoToken
      /\ walk.prev \in Ids /\ seen \in Seq(MessageKeys) /\ stored \in SUBSET MessageKeys
  BY DEF OlderPage, StoreInv, StoreTypeOK
<1>2. /\ S \in SUBSET MessageKeys /\ S \subseteq stored /\ IsFiniteSet(S)
      /\ Alone(c) => \A k \in stored : k \in S <=> k[1] = c
  BY <1>1, RangeOfChannel DEF StoreInv
<1>3. Lists(o, S)
  BY <1>2, OrderedLists
<1> HIDE DEF S, o, p, P
<1>4. /\ Len(o) \in Nat
      /\ \A i \in 1 .. Len(o) : o[i] \in S /\ o[i] \in MessageKeys
      /\ \A k \in S : \E i \in 1 .. Len(o) : o[i] = k
      /\ \A i, j \in 1 .. Len(o) : Below(o[i], o[j]) <=> i < j
  BY <1>2, <1>3, ListElements, Zenon
<1>5. p \in 0 .. Len(o) + 1 /\ walk.limit \in Nat \ {0}
  <2>1. p \in 1 .. Len(o) + 1
    BY <1>2, <1>3, SeekInRange, Zenon DEF p
  <2>2. Len(o) \in Nat
    BY <1>4
  <2>3. walk.limit \in Nat \ {0}
    BY <1>1, StoreAssumption
  <2> QED
    BY <2>1, <2>2, <2>3
<1>6. OldPart(P, S, o, p, walk.limit)
  BY <1>2, <1>3, <1>5, OldPage, Zenon DEF P
<1>7. P \in Seq(MessageKeys)
  <2>1. P \in Seq(S)
    BY <1>6 DEF OldPart
  <2> QED
    BY <1>2, <2>1, SeqOfMore
<1>8. /\ stored' = stored /\ asOf' = asOf /\ seen' = seen \o P
      /\ walk' = [walk EXCEPT !.prev = Token(P, walk.limit)]
  <2>1. GetMessageList(c, walk.prev, "before", walk.limit) = [prevs |-> P, nexts |-> << >>]
    BY <1>1 DEF GetMessageList, S, o, p, P
  <2>2. P \o << >> = P
    BY <1>7, ConcatEmptySeq
  <2> DEFINE page == MessageListPage(c, walk.prev, "before", walk.limit)
  <2>3. page.data = P /\ page.prev = Token(P, walk.limit)
    <3> DEFINE g == GetMessageList(c, walk.prev, "before", walk.limit)
    <3>1. page.data = g.prevs \o g.nexts /\ page.prev = Token(g.prevs, walk.limit)
      BY DEF MessageListPage
    <3>2. g = [prevs |-> P, nexts |-> << >>]
      BY <2>1
    <3> HIDE DEF g, page
    <3>3. g.prevs = P /\ g.nexts = << >>
      BY <3>2
    <3> QED
      BY <2>2, <3>1, <3>3
  <2>4. /\ walk' = [walk EXCEPT !.prev = page.prev] /\ seen' = seen \o page.data
        /\ stored' = stored /\ asOf' = asOf
    BY DEF OlderPage
  <2> QED
    BY <2>3, <2>4
<1>9. /\ walk'.channel = c /\ walk'.limit = walk.limit /\ walk'.anchor = walk.anchor
      /\ walk'.prev = Token(P, walk.limit) /\ walk'.next = walk.next
  BY <1>8 DEF StoreInv, StoreTypeOK
<1>10. /\ seen' \in Seq(MessageKeys) /\ ToSet(seen') = ToSet(seen) \cup ToSet(P)
       /\ IsInjective(seen) /\ ToSet(seen) \cap ToSet(P) = {} => IsInjective(seen')
  BY <1>1, <1>6, <1>7, <1>8, ConcatHas DEF OldPart
<1>11. StoreTypeOK'
  <2>1. Token(P, walk.limit) \in Ids \cup {NoToken}
    BY <1>5, <1>7, TokenIsId
  <2> QED
    BY <1>8, <1>10, <2>1 DEF StoreInv, StoreTypeOK
<1>12. ASSUME Alone(c)
       PROVE  WalkInv'
  <2>1. WalkInv
    BY <1>12 DEF StoreInv
  <2>2. AtHand' = AtHand \cup ToSet(P)
    BY <1>8, <1>9, <1>10 DEF AtHand
  <2>3. e \in ToSet(seen) /\ e \in AtHand /\ \A k \in AtHand : ~Below(k, e)
    BY <1>1, <2>1 DEF WalkInv, AtHand
  <2>4. e \in stored /\ e[1] = c /\ e \in MessageKeys
    BY <1>1, <2>1, <2>3 DEF WalkInv
  <2>5. PICK i \in 1 .. Len(o) : o[i] = e
    BY <1>2, <1>4, <1>12, <2>4
  <2>6. p = i
    BY <1>2, <1>3, <2>5, SeekFinds DEF p
  <2>7. \A k \in ToSet(P) : k \in S /\ k \in stored /\ k[1] = c /\ Below(k, e)
    <3> SUFFICES ASSUME NEW k \in ToSet(P)
                 PROVE  k \in S /\ k \in stored /\ k[1] = c /\ Below(k, e)
      OBVIOUS
    <3>1. PICK j \in 1 .. Len(o) : j < p /\ k = o[j]
      BY <1>6 DEF OldPart
    <3> QED
      BY <1>2, <1>4, <1>12, <2>5, <2>6, <3>1
  <2>8. AtHand \in SUBSET MessageKeys /\ \A k \in AtHand : k[1] = c
    <3>1. \A k \in ToSet(seen) : k \in MessageKeys /\ k[1] = c
      BY <1>1, <2>1 DEF WalkInv
    <3>2. walk.anchor \in asOf => walk.anchor \in MessageKeys /\ walk.anchor[1] = c
      BY <2>1 DEF WalkInv, StoreInv, StoreTypeOK
    <3> QED
      BY <3>1, <3>2 DEF AtHand
  <2>9. \A k \in S, a \in ToSet(P) : Below(a, k) /\ Below(k, e) => k \in ToSet(P)
    <3> SUFFICES ASSUME NEW k \in S, NEW a \in ToSet(P), Below(a, k), Below(k, e)
                 PROVE  k \in ToSet(P)
      OBVIOUS
    <3>1. PICK j \in 1 .. Len(o) : j < p /\ a = o[j]
      BY <1>6 DEF OldPart
    <3>2. PICK l \in 1 .. Len(o) : k = o[l]
      BY <1>4
    <3>3. j < l /\ l < p
      BY <1>4, <2>5, <2>6, <3>1, <3>2
    <3> QED
      BY <1>6, <3>1, <3>2, <3>3 DEF OldPart
  <2>10. IsInjective(seen')
    <3>1. ToSet(seen) \cap ToSet(P) = {}
      BY <2>3, <2>7 DEF AtHand
    <3> QED
      BY <1>10, <2>1, <3>1 DEF WalkInv
  <2>11. \A k \in ToSet(seen') : k \in stored /\ k[1] = c
    BY <1>10, <2>1, <2>7 DEF WalkInv
  <2>12. ASSUME walk.anchor \in asOf
         PROVE  NoGap(AtHand', asOf)
    <3>1. NoGap(AtHand, asOf) /\ asOf \in SUBSET MessageKeys /\ asOf \subseteq stored
      BY <2>1, <2>12 DEF WalkInv, StoreInv, StoreTypeOK
    <3>2. \A k \in asOf : k[1] = c => k \in S
      BY <1>2, <1>12, <3>1
    <3>3. ToSet(P) \in SUBSET S
      BY <2>7
    <3> DEFINE H == AtHand
               onPage == ToSet(P)
               b == c
               f == e
    <3>4. /\ S \in SUBSET MessageKeys /\ H \in SUBSET MessageKeys /\ onPage \in SUBSET S
          /\ f \in H /\ asOf \in SUBSET MessageKeys /\ NoGap(H, asOf)
      BY <1>2, <2>3, <2>8, <3>1, <3>3
    <3>5. (\A k \in asOf : k[1] = b => k \in S) /\ \A k \in H \cup onPage : k[1] = b
      BY <2>7, <2>8, <3>2
    <3>6. /\ \A k \in onPage : Below(k, f)
          /\ \A k \in H : ~Below(k, f)
          /\ \A k \in S, a \in onPage : Below(a, k) /\ Below(k, f) => k \in onPage
      BY <2>3, <2>7, <2>9
    <3> HIDE DEF H, onPage, b, f
    <3>7. NoGap(H \cup onPage, asOf)
      BY <3>4, <3>5, <3>6, GrowsDown
    <3> QED
      BY <2>2, <3>7 DEF H, onPage
  <2>13. ASSUME Token(P, walk.limit) # NoToken
         PROVE  /\ <<c, Token(P, walk.limit)>> \in ToSet(seen')
                /\ \A k \in AtHand' : ~Below(k, <<c, Token(P, walk.limit)>>)
    <3>1. PICK f \in ToSet(P) : /\ f[2] = Token(P, walk.limit)
                                /\ \A l \in ToSet(P) : ~Below(l, f)
      BY <1>6, <2>13 DEF OldPart
    <3>2. f \in MessageKeys /\ f[1] = c /\ Below(f, e)
      BY <1>2, <2>7
    <3>3. f = <<c, Token(P, walk.limit)>>
      BY <3>1, <3>2, KeyIsPair
    <3>4. \A k \in AtHand : ~Below(k, f)
      BY <2>3, <2>4, <2>8, <3>2, BelowOrder
    <3> QED
      BY <1>10, <2>2, <3>1, <3>3, <3>4
  <2>14. ASSUME walk.next # NoToken
         PROVE  /\ <<c, walk.next>> \in ToSet(seen')
                /\ \A k \in AtHand' : ~Below(<<c, walk.next>>, k)
    <3> DEFINE f == <<c, walk.next>>
    <3>1. f \in ToSet(seen) /\ f \in AtHand /\ \A k \in AtHand : ~Below(f, k)
      BY <2>1, <2>14 DEF WalkInv, AtHand
    <3>2. \A k \in ToSet(P) : ~Below(f, k)
      <4> SUFFICES ASSUME NEW k \in ToSet(P), Below(f, k) PROVE FALSE
        OBVIOUS
      <4>1. f \in MessageKeys /\ k \in MessageKeys /\ Below(k, e)
        BY <1>2, <2>7, <2>8, <3>1
      <4>2. Below(f, e)
        BY <2>4, <4>1, BelowOrder
      <4> QED
        BY <2>3, <3>1, <4>2
    <3> QED
      BY <1>10, <2>2, <3>1, <3>2
  <2>15. walk'.anchor \in asOf' => walk'.anchor[1] = walk'.channel /\ NoGap(AtHand', asOf')
    <3>1. walk.anchor \in asOf => walk.anchor[1] = c
      BY <2>1 DEF WalkInv
    <3> QED
      BY <1>8, <1>9, <2>12, <3>1
  <2>16. walk'.prev # NoToken =>
           /\ <<walk'.channel, walk'.prev>> \in ToSet(seen')
           /\ \A k \in AtHand' : ~Below(k, <<walk'.channel, walk'.prev>>)
    BY <1>9, <2>13
  <2>17. walk'.next # NoToken =>
           /\ <<walk'.channel, walk'.next>> \in ToSet(seen')
           /\ \A k \in AtHand' : ~Below(<<walk'.channel, walk'.next>>, k)
    BY <1>9, <2>14
  <2>18. \A k \in ToSet(seen') : k \in stored' /\ k[1] = walk'.channel
    BY <1>8, <1>9, <2>11
  <2> QED
    BY <2>10, <2>15, <2>16, <2>17, <2>18 DEF WalkInv
<1>13. Alone(walk'.channel) => WalkInv'
  BY <1>9, <1>12
<1> QED
  BY <1>1, <1>8, <1>9, <1>11, <1>13 DEF StoreInv, Alone
(* A page of newer messages likewise.                                        *)
LEMMA NewerPageStep ==
  ASSUME StoreInv, NewerPage
  PROVE  StoreInv'
<1> DEFINE c == walk.channel
           S == InRange(c)
           o == Ordered(S)
           e == <<c, walk.next>>
           p == Seek(o, e)
           P == OnFrom(o, p, walk.limit)
<1>1. /\ c \in Channels /\ walk.limit \in Limits /\ walk.next # NoToken
      /\ walk.next \in Ids /\ seen \in Seq(MessageKeys) /\ stored \in SUBSET MessageKeys
  BY DEF NewerPage, StoreInv, StoreTypeOK
<1>2. /\ S \in SUBSET MessageKeys /\ S \subseteq stored /\ IsFiniteSet(S)
      /\ Alone(c) => \A k \in stored : k \in S <=> k[1] = c
  BY <1>1, RangeOfChannel DEF StoreInv
<1>3. Lists(o, S)
  BY <1>2, OrderedLists
<1> HIDE DEF S, o, p, P
<1>4. /\ Len(o) \in Nat
      /\ \A i \in 1 .. Len(o) : o[i] \in S /\ o[i] \in MessageKeys
      /\ \A k \in S : \E i \in 1 .. Len(o) : o[i] = k
      /\ \A i, j \in 1 .. Len(o) : Below(o[i], o[j]) <=> i < j
  BY <1>2, <1>3, ListElements, Zenon
<1>5. p \in 0 .. Len(o) + 1 /\ walk.limit \in Nat \ {0}
  <2>1. p \in 1 .. Len(o) + 1
    BY <1>2, <1>3, SeekInRange, Zenon DEF p
  <2>2. Len(o) \in Nat
    BY <1>4
  <2>3. walk.limit \in Nat \ {0}
    BY <1>1, StoreAssumption
  <2> QED
    BY <2>1, <2>2, <2>3
<1>6. NewPart(P, S, o, p, walk.limit)
  BY <1>2, <1>3, <1>5, NewPage, Zenon DEF P
<1>7. P \in Seq(MessageKeys)
  <2>1. P \in Seq(S)
    BY <1>6 DEF NewPart
  <2> QED
    BY <1>2, <2>1, SeqOfMore
<1>8. /\ stored' = stored /\ asOf' = asOf /\ seen' = seen \o P
      /\ walk' = [walk EXCEPT !.next = Token(P, walk.limit)]
  <2>1. GetMessageList(c, walk.next, "after", walk.limit) = [prevs |-> << >>, nexts |-> P]
    BY <1>1 DEF GetMessageList, S, o, p, P
  <2>2. << >> \o P = P
    BY <1>7, ConcatEmptySeq
  <2> DEFINE page == MessageListPage(c, walk.next, "after", walk.limit)
  <2>3. page.data = P /\ page.next = Token(P, walk.limit)
    <3> DEFINE g == GetMessageList(c, walk.next, "after", walk.limit)
    <3>1. page.data = g.prevs \o g.nexts /\ page.next = Token(g.nexts, walk.limit)
      BY DEF MessageListPage
    <3>2. g = [prevs |-> << >>, nexts |-> P]
      BY <2>1
    <3> HIDE DEF g, page
    <3>3. g.nexts = P /\ g.prevs = << >>
      BY <3>2
    <3> QED
      BY <2>2, <3>1, <3>3
  <2>4. /\ walk' = [walk EXCEPT !.next = page.next] /\ seen' = seen \o page.data
        /\ stored' = stored /\ asOf' = asOf
    BY DEF NewerPage
  <2> QED
    BY <2>3, <2>4
<1>9. /\ walk'.channel = c /\ walk'.limit = walk.limit /\ walk'.anchor = walk.anchor
      /\ walk'.next = Token(P, walk.limit) /\ walk'.prev = walk.prev
  BY <1>8 DEF StoreInv, StoreTypeOK
<1>10. /\ seen' \in Seq(MessageKeys) /\ ToSet(seen') = ToSet(seen) \cup ToSet(P)
       /\ IsInjective(seen) /\ ToSet(seen) \cap ToSet(P) = {} => IsInjective(seen')
  BY <1>1, <1>6, <1>7, <1>8, ConcatHas DEF NewPart
<1>11. StoreTypeOK'
  <2>1. Token(P, walk.limit) \in Ids \cup {NoToken}
    BY <1>5, <1>7, TokenIsId
  <2> QED
    BY <1>8, <1>10, <2>1 DEF StoreInv, StoreTypeOK
<1>12. ASSUME Alone(c)
       PROVE  WalkInv'
  <2>1. WalkInv
    BY <1>12 DEF StoreInv
  <2>2. AtHand' = AtHand \cup ToSet(P)
    BY <1>8, <1>9, <1>10 DEF AtHand
  <2>3. e \in ToSet(seen) /\ e \in AtHand /\ \A k \in AtHand : ~Below(e, k)
    BY <1>1, <2>1 DEF WalkInv, AtHand
  <2>4. e \in stored /\ e[1] = c /\ e \in MessageKeys
    BY <1>1, <2>1, <2>3 DEF WalkInv
  <2>5. PICK i \in 1 .. Len(o) : o[i] = e
    BY <1>2, <1>4, <1>12, <2>4
  <2>6. p = i
    BY <1>2, <1>3, <2>5, SeekFinds DEF p
  <2>7. \A k \in ToSet(P) : k \in S /\ k \in stored /\ k[1] = c /\ Below(e, k)
    <3> SUFFICES ASSUME NEW k \in ToSet(P)
                 PROVE  k \in S /\ k \in stored /\ k[1] = c /\ Below(e, k)
      OBVIOUS
    <3>1. PICK j \in 1 .. Len(o) : p < j /\ k = o[j]
      BY <1>6 DEF NewPart
    <3> QED
      BY <1>2, <1>4, <1>12, <2>5, <2>6, <3>1
  <2>8. AtHand \in SUBSET MessageKeys /\ \A k \in AtHand : k[1] = c
    <3>1. \A k \in ToSet(seen) : k \in MessageKeys /\ k[1] = c
      BY <1>1, <2>1 DEF WalkInv
    <3>2. walk.anchor \in asOf => walk.anchor \in MessageKeys /\ walk.anchor[1] = c
      BY <2>1 DEF WalkInv, StoreInv, StoreTypeOK
    <3> QED
      BY <3>1, <3>2 DEF AtHand
  <2>9. \A k \in S, a \in ToSet(P) : Below(e, k) /\ Below(k, a) => k \in ToSet(P)
    <3> SUFFICES ASSUME NEW k \in S, NEW a \in ToSet(P), Below(k, a), Below(e, k)
                 PROVE  k \in ToSet(P)
      OBVIOUS
    <3>1. PICK j \in 1 .. Len(o) : p < j /\ a = o[j]
      BY <1>6 DEF NewPart
    <3>2. PICK l \in 1 .. Len(o) : k = o[l]
      BY <1>4
    <3>3. p < l /\ l < j
      BY <1>4, <2>5, <2>6, <3>1, <3>2
    <3> QED
      BY <1>6, <3>1, <3>2, <3>3 DEF NewPart
  <2>10. IsInjective(seen')
    <3>1. ToSet(seen) \cap ToSet(P) = {}
      BY <2>3, <2>7 DEF AtHand
    <3> QED
      BY <1>10, <2>1, <3>1 DEF WalkInv
  <2>11. \A k \in ToSet(seen') : k \in stored /\ k[1] = c
    BY <1>10, <2>1, <2>7 DEF WalkInv
  <2>12. ASSUME walk.anchor \in asOf
         PROVE  NoGap(AtHand', asOf)
    <3>1. NoGap(AtHand, asOf) /\ asOf \in SUBSET MessageKeys /\ asOf \subseteq stored
      BY <2>1, <2>12 DEF WalkInv, StoreInv, StoreTypeOK
    <3>2. \A k \in asOf : k[1] = c => k \in S
      BY <1>2, <1>12, <3>1
    <3>3. ToSet(P) \in SUBSET S
      BY <2>7
    <3> DEFINE H == AtHand
               onPage == ToSet(P)
               b == c
               f == e
    <3>4. /\ S \in SUBSET MessageKeys /\ H \in SUBSET MessageKeys /\ onPage \in SUBSET S
          /\ f \in H /\ asOf \in SUBSET MessageKeys /\ NoGap(H, asOf)
      BY <1>2, <2>3, <2>8, <3>1, <3>3
    <3>5. (\A k \in asOf : k[1] = b => k \in S) /\ \A k \in H \cup onPage : k[1] = b
      BY <2>7, <2>8, <3>2
    <3>6. /\ \A k \in onPage : Below(f, k)
          /\ \A k \in H : ~Below(f, k)
          /\ \A k \in S, a \in onPage : Below(f, k) /\ Below(k, a) => k \in onPage
      BY <2>3, <2>7, <2>9
    <3> HIDE DEF H, onPage, b, f
    <3>7. NoGap(H \cup onPage, asOf)
      BY <3>4, <3>5, <3>6, GrowsUp
    <3> QED
      BY <2>2, <3>7 DEF H, onPage
  <2>13. ASSUME Token(P, walk.limit) # NoToken
         PROVE  /\ <<c, Token(P, walk.limit)>> \in ToSet(seen')
                /\ \A k \in AtHand' : ~Below(<<c, Token(P, walk.limit)>>, k)
    <3>1. PICK f \in ToSet(P) : /\ f[2] = Token(P, walk.limit)
                                /\ \A l \in ToSet(P) : ~Below(f, l)
      BY <1>6, <2>13 DEF NewPart
    <3>2. f \in MessageKeys /\ f[1] = c /\ Below(e, f)
      BY <1>2, <2>7
    <3>3. f = <<c, Token(P, walk.limit)>>
      BY <3>1, <3>2, KeyIsPair
    <3>4. \A k \in AtHand : ~Below(f, k)
      BY <2>3, <2>4, <2>8, <3>2, BelowOrder
    <3> QED
      BY <1>10, <2>2, <3>1, <3>3, <3>4
  <2>14. ASSUME walk.prev # NoToken
         PROVE  /\ <<c, walk.prev>> \in ToSet(seen')
                /\ \A k \in AtHand' : ~Below(k, <<c, walk.prev>>)
    <3> DEFINE f == <<c, walk.prev>>
    <3>1. f \in ToSet(seen) /\ f \in AtHand /\ \A k \in AtHand : ~Below(k, f)
      BY <2>1, <2>14 DEF WalkInv, AtHand
    <3>2. \A k \in ToSet(P) : ~Below(k, f)
      <4> SUFFICES ASSUME NEW k \in ToSet(P), Below(k, f) PROVE FALSE
        OBVIOUS
      <4>1. f \in MessageKeys /\ k \in MessageKeys /\ Below(e, k)
        BY <1>2, <2>7, <2>8, <3>1
      <4>2. Below(e, f)
        BY <2>4, <4>1, BelowOrder
      <4> QED
        BY <2>3, <3>1, <4>2
    <3> QED
      BY <1>10, <2>2, <3>1, <3>2
  <2>15. walk'.anchor \in asOf' => walk'.anchor[1] = walk'.channel /\ NoGap(AtHand', asOf')
    <3>1. walk.anchor \in asOf => walk.anchor[1] = c
      BY <2>1 DEF WalkInv
    <3> QED
      BY <1>8, <1>9, <2>12, <3>1
  <2>16. walk'.next # NoToken =>
           /\ <<walk'.channel, walk'.next>> \in ToSet(seen')
           /\ \A k \in AtHand' : ~Below(<<walk'.channel, walk'.next>>, k)
    BY <1>9, <2>13
  <2>17. walk'.prev # NoToken =>
           /\ <<walk'.channel, walk'.prev>> \in ToSet(seen')
           /\ \A k \in AtHand' : ~Below(k, <<walk'.channel, walk'.prev>>)
    BY <1>9, <2>14
  <2>18. \A k \in ToSet(seen') : k \in stored' /\ k[1] = walk'.channel
    BY <1>8, <1>9, <2>11
  <2> QED
    BY <2>10, <2>15, <2>16, <2>17, <2>18 DEF WalkInv
<1>13. Alone(walk'.channel) => WalkInv'
  BY <1>9, <1>12
<1> QED
  BY <1>1, <1>8, <1>9, <1>11, <1>13 DEF StoreInv, Alone

-----------------------------------------------------------------------------
LEMMA StoreSteps == StoreInv /\ [StoreNext]_storeVars => StoreInv'
<1> SUFFICES ASSUME StoreInv, [StoreNext]_storeVars PROVE StoreInv'
  OBVIOUS
<1>1. CASE \E k \in MessageKeys : SaveMessage(k)
  BY <1>1, SaveMessageStep
<1>2. CASE \E c \in Channels, next \in Ids \cup {NoToken}, d \in Directions, limit \in Limits :
             walk.limit = NoToken /\ FirstPage(c, next, d, limit)
  BY <1>2, FirstPageStep
<1>3. CASE OlderPage
  BY <1>3, OlderPageStep
<1>4. CASE NewerPage
  BY <1>4, NewerPageStep
<1>5. CASE UNCHANGED storeVars
  BY <1>5, StoreStutters
<1> QED
  BY <1>1, <1>2, <1>3, <1>4, <1>5 DEF StoreNext

(* What the client has at hand is one stretch of its channel, and each token *)
(* of message.list points at an end of it (GetMessageList).                  *)
THEOREM StoreInvariant == StoreSpec => []StoreInv
<1> QED
  BY StoreInitially, StoreSteps, PTL DEF StoreSpec

(* Following the tokens of message.list returns no message twice, although   *)
(* handlers store messages between two pages (GetMessageList).               *)
THEOREM WalkRepeatsNothingCorrect == StoreSpec => []WalkRepeatsNothing
<1>1. StoreInv => WalkRepeatsNothing
  BY DEF StoreInv, WalkInv, WalkRepeatsNothing
<1> QED
  BY <1>1, StoreInvariant, PTL

(* Nor does it leave out a message between two it returned, although the     *)
(* loops over the iterator never return the key they start on.               *)
THEOREM WalkLeavesNoGapCorrect == StoreSpec => []WalkLeavesNoGap
<1>1. StoreInv => WalkLeavesNoGap
  <2> SUFFICES ASSUME StoreInv, walk.anchor \in asOf, Alone(walk.channel),
                      NEW k \in asOf, NEW a \in ToSet(seen) \cup {walk.anchor},
                      NEW b \in ToSet(seen) \cup {walk.anchor}, Below(a, k), Below(k, b)
               PROVE  k \in ToSet(seen) \/ k = walk.anchor
    BY DEF WalkLeavesNoGap
  <2>1. NoGap(AtHand, asOf)
    BY DEF StoreInv, WalkInv
  <2>2. a \in AtHand /\ b \in AtHand
    BY DEF AtHand
  <2>3. k \in AtHand
    BY <2>1, <2>2 DEF NoGap
  <2> QED
    BY <2>3 DEF AtHand
<1> QED
  BY <1>1, StoreInvariant, PTL

(* The walk keeps to its types: a token is the ID of a message.              *)
THEOREM StoreTypeCorrect == StoreSpec => []StoreTypeOK
<1>1. StoreInv => StoreTypeOK
  BY DEF StoreInv
<1> QED
  BY <1>1, StoreInvariant, PTL
=============================================================================
