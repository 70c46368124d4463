-------------------------- MODULE ConfigFile_proofs -------------------------
(***************************************************************************)
(* What holds of the configuration file for any number of edits and of     *)
(* writes that are cut off: no setting is lost, and the program runs with   *)
(* what it was given.                                                      *)
(***************************************************************************)
EXTENDS ConfigFile, TLAPS

Typed ==
  /\ file \in Files /\ backup \in Files /\ orig \in Files
  /\ conf \in [Fields -> Values]

Stages ==
  /\ loader \in {"first", "firstWrite"} => file.kind = "absent" /\ orig = Absent
  /\ loader \in {"check", "backup"} => orig = file
  /\ file.kind = "absent" => file = Absent /\ settings = {}
  /\ loader \in {"backup", "update", "write"} => ~Complete(orig)

(* Where the settings are, stage by stage: a file that was not cut off has   *)
(* them all, or has been completed or garbled; during an update the backup   *)
(* has them.                                                                 *)
Kept ==
  ~blind =>
    /\ ~file.cut => settings \subseteq SetIn(file) \/ Complete(file) \/ file.kind = "garbage"
    /\ loader = "backup" => settings \subseteq SetIn(file)
    /\ loader \in {"update", "write"} => settings \subseteq SetIn(backup)
    /\ settings \subseteq SetIn(file) \cup SetIn(backup)

(* What the configuration keeps of the file the program was started with,    *)
(* from stage to stage; a file with a value of the wrong type, or one that   *)
(* its own merge garbles, is replaced, and with what replaces it the program *)
(* does not come up.                                                         *)
Keeps(c) ==
  LET o == Unmarshalled(orig)
  IN  /\ \A f \in Fields \ AskedAnew(o) : o[f] = "user" => c[f] = "user"
      /\ \A f \in Booleans : o[f] = "zero" => c[f] = "zero"

InEffect ==
  /\ loader = "update" => Keeps(conf)
  /\ loader = "write" => Keeps(conf) \/ conf["account"] = "zero"
  /\ loader = "load" =>
       /\ \/ Keeps(Unmarshalled(file))
          \/ file.kind \in {"mistyped", "garbage"} \/ file.val["account"] = "zero"
       /\ Complete(orig) => file = orig
  /\ loader = "up" =>
       orig = Absent \/ (Keeps(conf) /\ (Complete(orig) => conf = Unmarshalled(orig)))

ConfigInv == Typed /\ Stages /\ Kept /\ InEffect
-----------------------------------------------------------------------------
LEMMA FieldsKnown ==
  Fields = {"account", "connection", "file_enable", "file_url", "file_ttl", "db_enable",
            "satori_token", "server", "timeout"}
<1>1. DOMAIN FieldOrder = 1..9
  BY DEF FieldOrder
<1>2. \A i \in 1..9 : i \in {1, 2, 3, 4, 5, 6, 7, 8, 9}
  OBVIOUS
<1> QED BY <1>1, <1>2 DEF Fields, FieldOrder

LEMMA ValuesKnown ==
  /\ DefaultConfig \in [Fields -> Values]
  /\ [f \in Fields |-> "zero"] \in [Fields -> Values]
  /\ DefaultConfig["account"] = "zero"
  BY FieldsKnown DEF DefaultConfig, Values

LEMMA AbsentKnown ==
  /\ Absent \in Files /\ Absent.kind = "absent" /\ ~Absent.cut
  /\ Absent.keys = {} /\ SetIn(Absent) = {} /\ ~Complete(Absent)
<1>1. Absent \in Files /\ Absent.kind = "absent" /\ Absent.keys = {} /\ ~Absent.cut
  BY ValuesKnown DEF Absent, Files
<1> QED BY <1>1, FieldsKnown DEF SetIn, Complete

LEMMA OnlyKnown ==
  ASSUME NEW d \in Files, NEW ks \in SUBSET Fields
  PROVE  Only(d, ks) \in Files /\ Only(d, ks).kind = d.kind
<1> DEFINE v == [f \in Fields |-> IF f \in ks THEN d.val[f] ELSE "zero"]
<1>1. d.val \in [Fields -> Values]
  BY DEF Files
<1>2. v \in [Fields -> Values]
  BY <1>1 DEF Values
<1>3. Only(d, ks) = [d EXCEPT !.keys = ks, !.val = v]
  BY DEF Only
<1> HIDE DEF v
<1> QED BY <1>2, <1>3 DEF Files

LEMMA ValSet ==
  ASSUME NEW d \in Files, NEW f \in Fields, NEW v \in Values
  PROVE  [d EXCEPT !.val[f] = v] \in Files /\ [d EXCEPT !.val[f] = v].kind = d.kind
<1> DEFINE val == [d.val EXCEPT ![f] = v]
<1>1. d.val \in [Fields -> Values]
  BY DEF Files
<1>2. val \in [Fields -> Values]
  BY <1>1
<1>3. [d EXCEPT !.val[f] = v] = [d EXCEPT !.val = val]
  BY Zenon
<1> HIDE DEF val
<1>4. [d EXCEPT !.val = val] \in Files /\ [d EXCEPT !.val = val].kind = d.kind
  BY <1>2 DEF Files
<1> QED BY <1>3, <1>4

LEMMA PrefixKnown ==
  ASSUME NEW d \in Files, NEW n
  PROVE  Only(d, WrittenFirst(d, n)) \in Files /\ Only(d, WrittenFirst(d, n)).kind = d.kind
<1>1. WrittenFirst(d, n) \in SUBSET Fields
  BY DEF WrittenFirst, Files
<1> QED BY <1>1, OnlyKnown

LEMMA StuntedKnown ==
  ASSUME NEW d \in Files, NEW f \in Fields, NEW e \in Stunted(d, f)
  PROVE  e \in Files /\ e.kind \in {d.kind, "mistyped"}
<1>1. CASE \E v \in Values : e = [d EXCEPT !.val[f] = v]
  BY <1>1, ValSet
<1>2. CASE e = [d EXCEPT !.kind = "mistyped"]
  BY <1>2 DEF Files
<1> QED BY <1>1, <1>2 DEF Stunted, Values

(* The files CutOff may leave behind say that they are cut off.              *)
LEMMA CutOffKnown ==
  ASSUME NEW d \in Files, NEW e \in CutOff(d)
  PROVE  e \in Files /\ e.cut /\ e.kind \in {d.kind, "mistyped", "garbage"}
<1> DEFINE Prefix(n) == Only(d, WrittenFirst(d, n))
           headed == [Only(d, d.keys \ Satori) EXCEPT !.keys = d.keys]
           prefixes == {Prefix(n) : n \in 0..Len(FieldOrder)}
           stunted == UNION {Stunted(Prefix(n), FieldOrder[n]) :
                               n \in {m \in 1..Len(FieldOrder) : FieldOrder[m] \in d.keys}}
           garbage == [Absent EXCEPT !.kind = "garbage"]
           Fits(x) == x \in Files /\ x.kind \in {d.kind, "mistyped", "garbage"}
<1>1. d.keys \in SUBSET Fields
  BY DEF Files
<1>2. \A n : Fits(Prefix(n))
  BY PrefixKnown
<1>3. Fits(headed)
  <2>1. d.keys \ Satori \in SUBSET Fields
    BY <1>1
  <2>2. Only(d, d.keys \ Satori) \in Files /\ Only(d, d.keys \ Satori).kind = d.kind
    BY <2>1, OnlyKnown
  <2> QED BY <1>1, <2>2 DEF Files
<1>4. Fits(garbage)
  BY AbsentKnown DEF Files
<1>5. ASSUME NEW n \in 1..Len(FieldOrder), FieldOrder[n] \in d.keys,
             NEW x \in Stunted(Prefix(n), FieldOrder[n])
      PROVE  Fits(x)
  <2>1. Prefix(n) \in Files /\ Prefix(n).kind = d.kind /\ FieldOrder[n] \in Fields
    BY <1>1, <1>5, PrefixKnown
  <2> HIDE DEF Prefix
  <2> QED BY <1>5, <2>1, StuntedKnown
<1>6. PICK x \in prefixes \cup stunted \cup {headed, garbage} : e = [x EXCEPT !.cut = TRUE]
  BY DEF CutOff
<1>7. Fits(x)
  <2> HIDE DEF Fits, Prefix, headed, garbage
  <2> QED BY <1>2, <1>3, <1>4, <1>5, <1>6
<1> HIDE DEF Prefix, headed, garbage, prefixes, stunted
<1> QED BY <1>6, <1>7 DEF Files

(* What comes of c keeps what the user has set outside of anew, and leaves   *)
(* off a boolean that is off.                                                *)
Spares(c, d, anew) ==
  /\ d \in [Fields -> Values]
  /\ \A f \in Fields \ anew : c[f] = "user" => d[f] = "user"
  /\ \A f \in Booleans : c[f] = "zero" => d[f] = "zero"

(* Written out, a configuration keeps what is neither odd nor changed.       *)
LEMMA DumpKnown ==
  ASSUME NEW c \in [Fields -> Values], NEW d \in DumpConfig(c)
  PROVE  /\ d \in Files /\ d.kind \in {"yaml", "garbage"}
         /\ d.kind = "yaml" => /\ Complete(d) /\ d.keys = Fields /\ Spares(c, d.val, {})
                               /\ c["account"] = "zero" => d.val["account"] = "zero"
<1> DEFINE odd == {f \in Texts : c[f] \in {"odd", "changed"}}
           Written(lost) == [f \in Fields |-> IF f \in lost THEN "zero"
                                             ELSE IF f \in odd THEN "changed" ELSE c[f]]
           Yaml(v) == [Absent EXCEPT !.kind = "yaml", !.keys = Fields, !.val = v]
<1>1. Absent \in Files /\ Absent.unknown = FALSE
  BY AbsentKnown DEF Absent
<1>2. CASE d = [Absent EXCEPT !.kind = "garbage"]
  BY <1>1, <1>2 DEF Files
<1>3. ASSUME NEW lost \in SUBSET (odd \ {"connection"}), d = Yaml(Written(lost))
      PROVE  /\ d \in Files /\ d.kind = "yaml" /\ Complete(d) /\ d.keys = Fields
             /\ Spares(c, d.val, {})
             /\ c["account"] = "zero" => d.val["account"] = "zero"
  <2>1. Written(lost) \in [Fields -> Values]
    BY DEF Values
  <2>2. \A f \in Fields : c[f] \in {"user", "zero"} => f \notin odd
    OBVIOUS
  <2>3. \A f \in Fields : c[f] \in {"user", "zero"} => Written(lost)[f] = c[f]
    BY <2>2
  <2> HIDE DEF Written
  <2>4. /\ d \in Files /\ d.kind = "yaml" /\ d.keys = Fields /\ d.val = Written(lost)
        /\ ~d.unknown
    BY <1>1, <1>3, <2>1 DEF Files
  <2>5. Complete(d)
    BY <2>4 DEF Complete
  <2>6. Booleans \subseteq Fields /\ "account" \in Fields
    BY FieldsKnown DEF Booleans
  <2>7. Spares(c, d.val, {})
    BY <2>1, <2>3, <2>4, <2>6 DEF Spares
  <2>8. c["account"] = "zero" => d.val["account"] = "zero"
    BY <2>3, <2>4, <2>6
  <2> QED BY <2>4, <2>5, <2>7, <2>8
<1>4. \/ d = [Absent EXCEPT !.kind = "garbage"]
      \/ \E lost \in SUBSET (odd \ {"connection"}) : d = Yaml(Written(lost))
  BY DEF DumpConfig
<1> HIDE DEF Written, Yaml, odd
<1> QED BY <1>2, <1>3, <1>4

LEMMA RepliesKnown ==
  ASSUME NEW f
  PROVE  Replies(f) \subseteq Values /\ RepliesOrNone(f) \subseteq Values
  BY DEF Replies, RepliesOrNone, Values

(* The dialogues, one by one.                                                *)
LEMMA OneAsked ==
  ASSUME NEW c \in [Fields -> Values], NEW d, NEW anew, Spares(c, d, anew),
         NEW f \in Fields \ Booleans, c[f] # "user", NEW v \in Values
  PROVE  Spares(c, [d EXCEPT ![f] = v], anew)
<1>1. d \in [Fields -> Values] /\ [d EXCEPT ![f] = v] \in [Fields -> Values]
  BY DEF Spares
<1>2. \A g \in Fields : [d EXCEPT ![f] = v][g] = IF g = f THEN v ELSE d[g]
  BY <1>1
<1>3. Booleans \subseteq Fields
  BY FieldsKnown DEF Booleans
<1> QED BY <1>1, <1>2, <1>3 DEF Spares

LEMMA FileServerSpares ==
  ASSUME NEW c \in [Fields -> Values], NEW d, NEW anew, Spares(c, d, anew), "file_ttl" \in anew,
         c["file_enable"] # "zero", c["file_url"] = "zero", NEW e \in FileServerAsked(d)
  PROVE  Spares(c, e, anew)
<1>1. d \in [Fields -> Values] /\ {"file_enable", "file_url", "file_ttl"} \subseteq Fields
  BY FieldsKnown DEF Spares
<1>2. CASE e = d
  BY <1>2
<1>3. CASE e # d
  <2>1. PICK url \in RepliesOrNone("file_url"), ttl \in RepliesOrNone("file_ttl") :
          e = [d EXCEPT !["file_enable"] = "user", !["file_url"] = url, !["file_ttl"] = ttl]
    BY <1>3 DEF FileServerAsked
  <2>2. url \in Values /\ ttl \in Values
    BY RepliesKnown
  <2>3. e \in [Fields -> Values]
    BY <1>1, <2>1, <2>2 DEF Values
  <2>4. \A g \in Fields : e[g] = IF g = "file_ttl" THEN ttl ELSE IF g = "file_url" THEN url
                                 ELSE IF g = "file_enable" THEN "user" ELSE d[g]
    BY <1>1, <2>1
  <2>5. Booleans \subseteq Fields /\ "file_url" \notin Booleans /\ "file_ttl" \notin Booleans
    BY FieldsKnown DEF Booleans
  <2> QED BY <2>3, <2>4, <2>5 DEF Spares
<1> QED BY <1>2, <1>3

LEMMA SatoriSpares ==
  ASSUME NEW c \in [Fields -> Values], NEW d, NEW anew, Spares(c, d, anew),
         "satori_token" \in anew, c["server"] = "zero", NEW e \in SatoriAsked(d)
  PROVE  Spares(c, e, anew)
<1>1. d \in [Fields -> Values] /\ {"server", "satori_token"} \subseteq Fields \ Booleans
  BY FieldsKnown DEF Spares, Booleans
<1>2. PICK a \in Replies("server"), t \in RepliesOrNone("satori_token") :
        e = [d EXCEPT !["server"] = a, !["satori_token"] = t]
  BY DEF SatoriAsked
<1>3. a \in Values /\ t \in Values
  BY RepliesKnown
<1>4. e \in [Fields -> Values]
  BY <1>1, <1>2, <1>3
<1>5. \A g \in Fields : e[g] = IF g = "satori_token" THEN t ELSE IF g = "server" THEN a ELSE d[g]
  BY <1>1, <1>2
<1>6. Booleans \subseteq Fields
  BY FieldsKnown DEF Booleans
<1> QED BY <1>1, <1>4, <1>5, <1>6 DEF Spares

(* What interactiveConfigUpdate asks for anew although it is set.            *)
Replaced(c) ==
  {f \in {"satori_token"} : c["server"] = "zero"}
    \cup {f \in {"file_ttl"} : c["file_enable"] # "zero" /\ c["file_url"] = "zero"}

LEMMA UpdatesSpare ==
  ASSUME NEW c \in [Fields -> Values], NEW d \in Updates(c)
  PROVE  Spares(c, d, Replaced(c))
<1> DEFINE c1 == IF c["connection"] = "zero" THEN ConnectionAsked(c) ELSE {c}
           c2 == IF c["account"] = "zero" THEN UNION {AccountAsked(e) : e \in c1} ELSE c1
           c3 == IF c["file_enable"] # "zero" /\ c["file_url"] = "zero"
                 THEN UNION {FileServerAsked(e) : e \in c2} ELSE c2
           c4 == IF c["server"] = "zero" THEN UNION {SatoriAsked(e) : e \in c3} ELSE c3
           anew == Replaced(c)
<1>1. {"connection", "account", "server"} \subseteq Fields \ Booleans
  BY FieldsKnown DEF Booleans
<1>2. Spares(c, c, anew)
  BY DEF Spares
<1>3. \A e \in c1 : Spares(c, e, anew)
  <2> HIDE DEF anew
  <2>1. ASSUME NEW e \in ConnectionAsked(c), c["connection"] = "zero"
        PROVE  Spares(c, e, anew)
    <3>1. PICK a \in Replies("connection") : e = [c EXCEPT !["connection"] = a]
      BY <2>1 DEF ConnectionAsked
    <3> QED BY <1>1, <1>2, <2>1, <3>1, OneAsked, RepliesKnown
  <2> QED BY <1>2, <2>1
<1>4. \A e \in c2 : Spares(c, e, anew)
  <2> HIDE DEF anew, c1
  <2>1. ASSUME NEW b \in c1, NEW e \in AccountAsked(b), c["account"] = "zero"
        PROVE  Spares(c, e, anew)
    <3>1. PICK a \in Replies("account") : e = [b EXCEPT !["account"] = a]
      BY <2>1 DEF AccountAsked
    <3> QED BY <1>1, <1>3, <2>1, <3>1, OneAsked, RepliesKnown
  <2> QED BY <1>3, <2>1
<1>5. \A e \in c3 : Spares(c, e, anew)
  <2> DEFINE needed == c["file_enable"] # "zero" /\ c["file_url"] = "zero"
  <2>1. needed => "file_ttl" \in anew
    BY DEF Replaced
  <2> HIDE DEF anew, c2
  <2>2. ASSUME NEW b \in c2, NEW e \in FileServerAsked(b), needed
        PROVE  Spares(c, e, anew)
    BY <1>4, <2>1, <2>2, FileServerSpares
  <2> QED BY <1>4, <2>2
<1>6. \A e \in c4 : Spares(c, e, anew)
  <2>1. c["server"] = "zero" => "satori_token" \in anew
    BY DEF Replaced
  <2> HIDE DEF anew, c3
  <2>2. ASSUME NEW b \in c3, NEW e \in SatoriAsked(b), c["server"] = "zero"
        PROVE  Spares(c, e, anew)
    BY <1>5, <2>1, <2>2, SatoriSpares
  <2> QED BY <1>5, <2>2
<1>7. ASSUME NEW b \in {c} \ c1
      PROVE  Spares(c, [b EXCEPT !["connection"] = "changed"], anew)
  <2>1. b = c /\ c["connection"] = "zero"
    BY <1>7
  <2>2. "changed" \in Values
    BY DEF Values
  <2> HIDE DEF anew
  <2> QED BY <1>1, <1>2, <2>1, <2>2, OneAsked
<1>8. d \in {c} \cup c1 \cup c2 \cup c3 \cup c4
              \cup {[b EXCEPT !["connection"] = "changed"] : b \in {c} \ c1}
  BY DEF Updates
<1> HIDE DEF c1, c2, c3, c4, anew
<1>9. Spares(c, d, anew)
  BY <1>2, <1>3, <1>4, <1>5, <1>6, <1>7, <1>8
<1> QED BY <1>9 DEF anew
-----------------------------------------------------------------------------
(* Types.                                                                    *)
LEMMA MergedKnown ==
  ASSUME NEW o \in [Fields -> Values]
  PROVE  /\ MergedWithTemplate(o) \in [Fields -> Values]
         /\ Spares(o, MergedWithTemplate(o), {})
<1>1. MergedWithTemplate(o) \in [Fields -> Values]
  BY ValuesKnown DEF MergedWithTemplate
<1>2. Booleans \subseteq Fields
  BY FieldsKnown DEF Booleans
<1> QED BY <1>1, <1>2 DEF MergedWithTemplate, Spares

LEMMA UnmarshalledKnown ==
  ASSUME NEW d \in Files
  PROVE  Unmarshalled(d) \in [Fields -> Values]
<1>1. d.val \in [Fields -> Values]
  BY DEF Files
<1> QED BY <1>1 DEF Unmarshalled, Values

LEMMA FirstKnown ==
  ASSUME NEW a \in AccountAsked(DefaultConfig), NEW c \in ConnectionAsked(a),
         NEW s \in FileServerAsked(c), NEW d \in SatoriAsked(s)
  PROVE  d \in [Fields -> Values]
<1>1. a \in [Fields -> Values]
  BY ValuesKnown, RepliesKnown DEF AccountAsked
<1>2. c \in [Fields -> Values]
  BY <1>1, RepliesKnown DEF ConnectionAsked
<1>3. s \in [Fields -> Values]
  BY <1>2, RepliesKnown DEF FileServerAsked, Values
<1> QED BY <1>3, RepliesKnown DEF SatoriAsked

LEMMA EditedKnown ==
  ASSUME backup \in Files, NEW d \in Files, NEW e \in Edited(d)
  PROVE  e \in Files
<1> DEFINE outdated == {d, [d EXCEPT !.unknown = TRUE]} \cup {Only(d, d.keys \ {f}) : f \in Fields}
<1>1. \A f \in Fields : Only(d, d.keys \ {f}) \in Files
  <2> TAKE f \in Fields
  <2>1. d.keys \ {f} \in SUBSET Fields
    BY DEF Files
  <2> QED BY <2>1, OnlyKnown
<1>2. [d EXCEPT !.unknown = TRUE] \in Files
  BY DEF Files
<1>3. \A o \in outdated : o \in Files
  BY <1>1, <1>2
<1>4. e \in {backup} \cup outdated
            \cup {[o EXCEPT !.kind = "mistyped"] : o \in outdated}
            \cup UNION {UNION {{[o EXCEPT !.val[f] = v] : v \in RepliesOrNone(f)} : f \in o.keys} :
                          o \in outdated}
  BY DEF Edited
<1> HIDE DEF outdated
<1>5. \A o \in outdated : [o EXCEPT !.kind = "mistyped"] \in Files
  BY <1>3 DEF Files
<1>6. ASSUME NEW o \in outdated, NEW f \in o.keys, NEW v \in RepliesOrNone(f)
      PROVE  [o EXCEPT !.val[f] = v] \in Files
  <2>1. o \in Files /\ f \in Fields /\ v \in Values
    BY <1>3, RepliesKnown DEF Files
  <2> QED BY <2>1, ValSet
<1>7. CASE \E o \in outdated : \E f \in o.keys : \E v \in RepliesOrNone(f) :
             e = [o EXCEPT !.val[f] = v]
  BY <1>6, <1>7
<1>8. CASE e \in {[o EXCEPT !.kind = "mistyped"] : o \in outdated}
  BY <1>5, <1>8
<1>9. CASE e \in {backup} \cup outdated
  BY <1>3, <1>9
<1> QED BY <1>4, <1>7, <1>8, <1>9
-----------------------------------------------------------------------------
LEMMA KeepsUnmarshalled == Keeps(Unmarshalled(orig))
  BY DEF Keeps

(* What is kept of orig goes on being kept: what the dialogue replaces, it   *)
(* replaces for want of something that orig had not either.                  *)
LEMMA KeepsSpared ==
  ASSUME NEW c, NEW d, Keeps(c), Spares(c, d, Replaced(c))
  PROVE  Keeps(d)
<1> DEFINE o == Unmarshalled(orig)
<1>1. "server" \in Fields \ AskedAnew(o) /\ "file_url" \in Fields \ AskedAnew(o)
  BY FieldsKnown DEF AskedAnew
<1>2. o["server"] = "user" => c["server"] = "user"
  BY <1>1 DEF Keeps
<1>3. o["file_url"] = "user" => c["file_url"] = "user"
  BY <1>1 DEF Keeps
<1>4. o["file_enable"] = "zero" => c["file_enable"] = "zero"
  BY DEF Keeps, Booleans
<1> HIDE DEF o
<1>5. Replaced(c) \subseteq AskedAnew(o)
  BY <1>2, <1>3, <1>4 DEF Replaced, AskedAnew
<1> USE DEF o
<1> QED BY <1>5 DEF Keeps, Spares

LEMMA KeepsWritten ==
  ASSUME NEW c, NEW d, Keeps(c), Spares(c, d, {})
  PROVE  Keeps(d)
  BY DEF Keeps, Spares

LEMMA ConfigStarts == ConfigInit => ConfigInv
<1> SUFFICES ASSUME ConfigInit
             PROVE  ConfigInv
  OBVIOUS
<1>1. Typed
  BY AbsentKnown, ValuesKnown DEF ConfigInit, Typed
<1>2. Stages /\ Kept /\ InEffect
  BY AbsentKnown DEF ConfigInit, Stages, Kept, InEffect
<1> QED BY <1>1, <1>2 DEF ConfigInv

LEMMA LoadConfigInv ==
  ASSUME ConfigInv, LoadConfig
  PROVE  ConfigInv'
<1>1. /\ loader' = IF file.kind = "absent" THEN "first" ELSE "check"
      /\ orig' = file /\ UNCHANGED <<file, backup, conf, settings, blind>>
  BY DEF LoadConfig
<1>2. Typed' /\ Stages'
  BY <1>1 DEF ConfigInv, Typed, Stages
<1>3. Kept' /\ InEffect'
  BY <1>1 DEF ConfigInv, Kept, InEffect, Complete, SetIn
<1> QED BY <1>2, <1>3 DEF ConfigInv

LEMMA FirstConfigInv ==
  ASSUME ConfigInv, FirstConfig
  PROVE  ConfigInv'
<1>1. /\ loader = "first" /\ loader' \in {"firstWrite", "down"}
      /\ UNCHANGED <<file, backup, orig, settings, blind>>
  BY DEF FirstConfig
<1>2. conf' \in [Fields -> Values]
  BY FirstKnown DEF FirstConfig, ConfigInv, Typed
<1>3. Typed' /\ Stages'
  BY <1>1, <1>2 DEF ConfigInv, Typed, Stages
<1>4. Kept' /\ InEffect'
  BY <1>1 DEF ConfigInv, Kept, InEffect, Complete, SetIn
<1> QED BY <1>3, <1>4 DEF ConfigInv

LEMMA EnsureConfigCompleteInv ==
  ASSUME ConfigInv, EnsureConfigComplete
  PROVE  ConfigInv'
<1>1. /\ loader = "check" /\ UNCHANGED <<file, backup, orig, conf, settings>>
      /\ loader' \in {"load", "backup", "down"}
      /\ loader' = "backup" => ~Complete(orig) /\ orig.kind # "garbage"
      /\ blind' = (blind \/ (loader' = "backup" /\ orig.cut))
  BY DEF EnsureConfigComplete
<1>2. orig = file /\ orig \in Files
  BY <1>1 DEF ConfigInv, Stages, Typed
<1>3. Typed' /\ Stages'
  BY <1>1 DEF ConfigInv, Typed, Stages, Complete
<1>4. Kept'
  BY <1>1, <1>2 DEF ConfigInv, Kept, Complete, SetIn
<1>5. InEffect'
  <2>1. Keeps(Unmarshalled(file))'
    BY <1>1, <1>2, KeepsUnmarshalled DEF Keeps, Unmarshalled
  <2> QED BY <1>1, <1>2, <2>1 DEF InEffect
<1> QED BY <1>3, <1>4, <1>5 DEF ConfigInv

LEMMA BackupInv ==
  ASSUME ConfigInv, Backup
  PROVE  ConfigInv'
<1> DEFINE merged == MergedWithTemplate(Unmarshalled(orig))
<1>1. /\ loader = "backup" /\ backup' = orig
      /\ UNCHANGED <<file, orig, settings, blind>>
      /\ \/ conf' = DefaultConfig /\ loader' = "write"
         \/ loader' = "update" /\ \E d \in DumpConfig(merged) : d.kind # "garbage" /\ conf' = d.val
  BY DEF Backup, BackedUp
<1>2. orig = file /\ orig \in Files /\ ~Complete(orig)
  BY <1>1 DEF ConfigInv, Stages, Typed
<1>3. Unmarshalled(orig) \in [Fields -> Values]
  BY <1>2, UnmarshalledKnown
<1>4. merged \in [Fields -> Values] /\ Keeps(merged)
  BY <1>3, KeepsUnmarshalled, KeepsWritten, MergedKnown
<1> HIDE DEF merged
<1>5. loader' = "update" => conf' \in [Fields -> Values] /\ Keeps(conf')
  <2> SUFFICES ASSUME loader' = "update"
               PROVE  conf' \in [Fields -> Values] /\ Keeps(conf')
    OBVIOUS
  <2>1. PICK d \in DumpConfig(merged) : d.kind # "garbage" /\ conf' = d.val
    BY <1>1
  <2>2. Spares(merged, d.val, {})
    BY <1>4, <2>1, DumpKnown
  <2> QED BY <1>4, <2>1, <2>2, KeepsWritten DEF Spares
<1>6. Typed'
  BY <1>1, <1>2, <1>5, ValuesKnown DEF ConfigInv, Typed
<1>7. Stages' /\ Kept'
  BY <1>1, <1>2 DEF ConfigInv, Stages, Kept, Complete, SetIn
<1>8. InEffect'
  BY <1>1, <1>5, ValuesKnown DEF InEffect, Keeps, Unmarshalled
<1> QED BY <1>6, <1>7, <1>8 DEF ConfigInv

LEMMA InteractiveUpdateInv ==
  ASSUME ConfigInv, InteractiveUpdate
  PROVE  ConfigInv'
<1>1. /\ loader = "update" /\ loader' = "write" /\ conf' \in Updates(conf)
      /\ UNCHANGED <<file, backup, orig, settings, blind>>
  BY DEF InteractiveUpdate
<1>2. Spares(conf, conf', Replaced(conf))
  BY <1>1, UpdatesSpare DEF ConfigInv, Typed
<1>3. Typed' /\ Stages'
  BY <1>1, <1>2 DEF ConfigInv, Typed, Stages, Spares, Complete
<1>4. Kept'
  BY <1>1 DEF ConfigInv, Kept, Complete, SetIn
<1>5. InEffect'
  <2>1. Keeps(conf')
    BY <1>1, <1>2, KeepsSpared DEF ConfigInv, InEffect
  <2> QED BY <1>1, <2>1 DEF InEffect, Keeps, Unmarshalled
<1> QED BY <1>3, <1>4, <1>5 DEF ConfigInv

LEMMA WriteInv ==
  ASSUME ConfigInv, Write
  PROVE  ConfigInv'
<1>1. /\ loader \in {"write", "firstWrite"} /\ file' \in DumpConfig(conf)
      /\ settings' = settings \cup SetIn(file')
      /\ loader' = IF loader = "write" THEN "load" ELSE "up"
      /\ UNCHANGED <<backup, orig, conf, blind>>
  BY DEF Write
<1>2. /\ file' \in Files /\ file'.kind \in {"yaml", "garbage"}
      /\ file'.kind = "yaml" => /\ Complete(file') /\ file'.keys = Fields
                                /\ Spares(conf, file'.val, {})
                                /\ conf["account"] = "zero" => file'.val["account"] = "zero"
  BY <1>1, DumpKnown DEF ConfigInv, Typed
<1>3. Typed' /\ Stages'
  BY <1>1, <1>2 DEF ConfigInv, Typed, Stages
<1>4. Kept'
  <2>1. loader = "firstWrite" => settings = {}
    BY DEF ConfigInv, Stages
  <2>2. file'.kind = "garbage" \/ Complete(file)'
    BY <1>2 DEF Complete
  <2>3. settings' = settings \cup SetIn(file)' /\ SetIn(backup)' = SetIn(backup)
    BY <1>1 DEF SetIn
  <2> QED BY <1>1, <2>1, <2>2, <2>3 DEF ConfigInv, Kept
<1>5. InEffect'
  <2>1. CASE loader = "firstWrite"
    BY <1>1, <2>1, AbsentKnown DEF ConfigInv, Stages, InEffect, Absent
  <2>2. CASE loader = "write"
    <3>1. Keeps(conf) \/ conf["account"] = "zero"
      BY <2>2 DEF ConfigInv, InEffect
    <3>2. file'.kind = "yaml" => Unmarshalled(file') = file'.val
      BY <1>2 DEF Unmarshalled, Files
    <3>3. \/ Keeps(Unmarshalled(file')) \/ file'.kind \in {"mistyped", "garbage"}
          \/ file'.val["account"] = "zero"
      BY <1>2, <3>1, <3>2, KeepsWritten
    <3>4. ~Complete(orig)
      BY <2>2 DEF ConfigInv, Stages
    <3> QED BY <1>1, <2>2, <3>3, <3>4 DEF InEffect, Keeps, Unmarshalled, Complete
  <2> QED BY <1>1, <2>1, <2>2
<1> QED BY <1>3, <1>4, <1>5 DEF ConfigInv

LEMMA LoadInv ==
  ASSUME ConfigInv, Load
  PROVE  ConfigInv'
<1>1. /\ loader = "load" /\ loader' \in {"down", "up"}
      /\ conf' \in {conf, Unmarshalled(file)}
      /\ UNCHANGED <<file, backup, orig, settings, blind>>
  BY DEF Load
<1>2. Unmarshalled(file) \in [Fields -> Values]
  BY UnmarshalledKnown DEF ConfigInv, Typed
<1>3. Typed' /\ Stages'
  BY <1>1, <1>2 DEF ConfigInv, Typed, Stages
<1>4. Kept'
  BY <1>1 DEF ConfigInv, Kept, Complete, SetIn
<1>5. InEffect'
  <2>1. loader' = "up" => /\ conf' = Unmarshalled(file) /\ Keeps(Unmarshalled(file))
                          /\ Complete(orig) => file = orig
    BY <1>1 DEF Load, ConfigInv, InEffect
  <2> QED BY <1>1, <2>1 DEF InEffect, Keeps, Unmarshalled, Complete
<1> QED BY <1>3, <1>4, <1>5 DEF ConfigInv

LEMMA ExitInv ==
  ASSUME ConfigInv, Exit
  PROVE  ConfigInv'
<1>1. /\ loader' = "down" /\ orig' = Absent /\ conf' = DefaultConfig
      /\ UNCHANGED <<file, backup, settings, blind>>
  BY DEF Exit
<1>2. Typed' /\ Stages'
  BY <1>1, AbsentKnown, ValuesKnown DEF ConfigInv, Typed, Stages
<1>3. Kept' /\ InEffect'
  BY <1>1 DEF ConfigInv, Kept, InEffect, Complete, SetIn
<1> QED BY <1>2, <1>3 DEF ConfigInv

LEMMA CutWriteInv ==
  ASSUME ConfigInv, CutWrite
  PROVE  ConfigInv'
<1>1. /\ loader \in {"write", "firstWrite", "backup"}
      /\ loader' = "down" /\ orig' = Absent /\ conf' = DefaultConfig
      /\ UNCHANGED <<settings, blind>>
  BY DEF CutWrite
<1>2. CASE loader = "backup"
  <2>1. backup' \in CutOff(orig) /\ UNCHANGED file
    BY <1>2 DEF CutWrite
  <2>2. backup' \in Files
    BY <2>1, CutOffKnown DEF ConfigInv, Typed
  <2>3. Typed' /\ Stages'
    BY <1>1, <2>1, <2>2, AbsentKnown, ValuesKnown DEF ConfigInv, Typed, Stages
  <2>4. SetIn(file)' = SetIn(file) /\ (Complete(file)' <=> Complete(file))
    BY <2>1 DEF SetIn, Complete
  <2>5. Kept' /\ InEffect'
    BY <1>1, <1>2, <2>1, <2>4 DEF ConfigInv, Kept, InEffect
  <2> QED BY <2>3, <2>5 DEF ConfigInv
<1>3. CASE loader # "backup"
  <2>1. (\E d \in DumpConfig(conf) : file' \in CutOff(d)) /\ UNCHANGED backup
    BY <1>3 DEF CutWrite
  <2>2. file' \in Files /\ file'.cut /\ file'.kind # "absent"
    BY <2>1, DumpKnown, CutOffKnown DEF ConfigInv, Typed
  <2>3. Typed' /\ Stages'
    BY <1>1, <2>1, <2>2, AbsentKnown, ValuesKnown DEF ConfigInv, Typed, Stages
  <2>4. SetIn(backup)' = SetIn(backup)
    BY <2>1 DEF SetIn
  <2>5. loader = "firstWrite" => settings = {}
    BY DEF ConfigInv, Stages
  <2>6. Kept' /\ InEffect'
    BY <1>1, <1>3, <2>2, <2>4, <2>5 DEF ConfigInv, Kept, InEffect
  <2> QED BY <2>3, <2>6 DEF ConfigInv
<1> QED BY <1>2, <1>3

LEMMA UserEditsInv ==
  ASSUME ConfigInv, UserEdits
  PROVE  ConfigInv'
<1>1. /\ loader = "down" /\ file' \in Edited(file) /\ file'.kind # "absent"
      /\ settings' = SetIn(file')
      /\ UNCHANGED <<loader, backup, orig, conf>>
  BY DEF UserEdits
<1>2. file' \in Files
  BY <1>1, EditedKnown DEF ConfigInv, Typed
<1>3. Typed' /\ Stages'
  BY <1>1, <1>2 DEF ConfigInv, Typed, Stages
<1>4. Kept' /\ InEffect'
  BY <1>1 DEF Kept, InEffect, SetIn
<1> QED BY <1>3, <1>4 DEF ConfigInv
-----------------------------------------------------------------------------
LEMMA ConfigStep ==
  ASSUME ConfigInv, [ConfigNext]_configVars
  PROVE  ConfigInv'
<1>1. CASE UNCHANGED configVars
  BY <1>1 DEF configVars, ConfigInv, Typed, Stages, Kept, InEffect, Keeps, SetIn, Complete,
     Unmarshalled
<1> QED BY <1>1, LoadConfigInv, FirstConfigInv, EnsureConfigCompleteInv, BackupInv,
        InteractiveUpdateInv, WriteInv, LoadInv, ExitInv, CutWriteInv, UserEditsInv
        DEF ConfigNext

THEOREM ConfigInvariant == ConfigSpec => []ConfigInv
<1>1. ConfigInit => ConfigInv
  BY ConfigStarts
<1>2. ConfigInv /\ [ConfigNext]_configVars => ConfigInv'
  BY ConfigStep
<1> QED BY <1>1, <1>2, PTL DEF ConfigSpec

(* No setting is ever in neither of the two files: fixConfigFile backs the   *)
(* file up before it writes it, for any number of edits and cut-off writes.  *)
THEOREM SettingsRecoverableCorrect == ConfigSpec => []SettingsRecoverable
<1>1. ConfigInv => SettingsRecoverable
  BY DEF ConfigInv, Kept, SettingsRecoverable
<1> QED BY <1>1, ConfigInvariant, PTL

(* The program comes up with what the file it was started with says: through *)
(* the merge, two writings and the dialogue.                                 *)
THEOREM SettingsInEffectCorrect == ConfigSpec => []SettingsInEffect
<1>1. ConfigInv => SettingsInEffect
  BY AbsentKnown DEF ConfigInv, InEffect, Keeps, SettingsInEffect
<1> QED BY <1>1, ConfigInvariant, PTL
=============================================================================
