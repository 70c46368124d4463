----------------------------- MODULE ConfigFile -----------------------------
(***************************************************************************)
(* The configuration file (config/config.go): asked for and written on the *)
(* first start; checked against the template on every later one and, if it *)
(* lacks keys or has unknown ones, backed up, merged with the template,    *)
(* completed in a dialogue, written in place and read again.  One thread,  *)
(* two files, and crashes while either is being written.  A few fields     *)
(* stand for the many, and a few values: the type's zero, the template's   *)
(* default, what the user set, text the user set that the template does    *)
(* not write as it is ("%s" escapes nothing; intents outside dumpIntents'  *)
(* list are dropped), and what has become of such text, of a number that   *)
(* is cut off, or of a question that was left half answered.               *)
(***************************************************************************)
EXTENDS Integers, Sequences, FiniteSets

CONSTANTS
  MaxEdits,    \* bound: how often the user edits the file
  MaxCuts,     \* bound: how many writes are cut off
  OddTexts     \* the fields for which the user may set odd text

VARIABLES
  loader,      \* where LoadConfig is; down or up the process
  file,        \* config.yml
  backup,      \* config.yml.backup
  orig,        \* currentConfigData: the file as it was read
  conf,        \* the Config in memory: the value of each field
  edits,       \* how often the user has edited the file
  cuts,        \* how many writes have been cut off
  settings,    \* history: the fields the user has set and not taken back
  blind        \* history: an update has begun with a file cut off by a crash

configVars == <<loader, file, backup, orig, conf, edits, cuts, settings, blind>>

(* In the order of ConfigTemplate.  "account" stands for its four items,     *)
(* "connection" for the choice between WebSocket and WebHook and its items,  *)
(* "satori_token" for Satori's version, path and token, "server" for host    *)
(* and port; such a group is zero when the program has to ask for it.        *)
FieldOrder == <<"account", "connection", "file_enable", "file_url", "file_ttl",
                "db_enable", "satori_token", "server", "timeout">>
Fields == {FieldOrder[i] : i \in DOMAIN FieldOrder}
Booleans == {"file_enable", "db_enable"}
Texts == {"account", "connection", "file_url", "satori_token", "server"}
Satori == {"satori_token", "server", "timeout"}
Values == {"zero", "default", "user", "odd", "changed"}

ASSUME ConfigAssumption == MaxEdits \in Nat /\ MaxCuts \in Nat /\ OddTexts \subseteq Texts

(* A file: nothing, text that is not YAML, or keys with values - some of the *)
(* wrong type, or beside keys the template does not know, or cut off.        *)
Files == [kind : {"absent", "garbage", "mistyped", "yaml"}, keys : SUBSET Fields,
          val : [Fields -> Values], unknown : BOOLEAN, cut : BOOLEAN]

ConfigTypeOK ==
  /\ loader \in {"down", "first", "check", "backup", "update", "write",
                 "firstWrite", "load", "up"}
  /\ file \in Files /\ backup \in Files /\ orig \in Files
  /\ conf \in [Fields -> Values]
  /\ edits \in 0..MaxEdits /\ cuts \in 0..MaxCuts
  /\ settings \in SUBSET Fields /\ blind \in BOOLEAN

DefaultConfig ==
  [f \in Fields |-> IF f \in {"db_enable", "timeout"} THEN "default" ELSE "zero"]

Absent == [kind |-> "absent", keys |-> {}, val |-> [f \in Fields |-> "zero"],
           unknown |-> FALSE, cut |-> FALSE]

(* DumpConfig fills in the template: every key, no other.  Odd text ends up  *)
(* as some other text, as none - but a connection stays enabled - or makes   *)
(* YAML of the whole impossible; what it has become may be as odd.           *)
DumpConfig(c) ==
  LET odd == {f \in Texts : c[f] \in {"odd", "changed"}}
      Written(lost) == [f \in Fields |-> IF f \in lost THEN "zero"
                                        ELSE IF f \in odd THEN "changed" ELSE c[f]]
  IN  {[Absent EXCEPT !.kind = "yaml", !.keys = Fields, !.val = Written(lost)] :
         lost \in SUBSET (odd \ {"connection"})}
        \cup {[Absent EXCEPT !.kind = "garbage"] : f \in odd}

ConfigInit ==
  /\ loader = "down" /\ file = Absent /\ backup = Absent /\ orig = Absent
  /\ conf = DefaultConfig /\ edits = 0 /\ cuts = 0 /\ settings = {} /\ blind = FALSE

(* Unmarshal into a Config: what has no key is zero.                         *)
Unmarshalled(d) == [f \in Fields |-> IF f \in d.keys THEN d.val[f] ELSE "zero"]

(* d with the keys ks only.                                                  *)
Only(d, ks) == [d EXCEPT !.keys = ks,
                         !.val = [f \in Fields |-> IF f \in ks THEN @[f] ELSE "zero"]]

SetIn(d) == {f \in d.keys : d.val[f] \in {"user", "odd"}}
-----------------------------------------------------------------------------
(* The dialogues: the configurations that may come of c.  The Satori version *)
(* path and token are asked for along with the server, and the file server's *)
(* ttl along with its address; none of the four is offered as it is set.     *)
Replies(f) == {"user"} \cup {"odd" : g \in OddTexts \cap {f}}
RepliesOrNone(f) == {"zero"} \cup Replies(f)

ConnectionAsked(c) == {[c EXCEPT !["connection"] = a] : a \in Replies("connection")}
AccountAsked(c) == {[c EXCEPT !["account"] = a] : a \in Replies("account")}
SatoriAsked(c) ==
  {[c EXCEPT !["server"] = a, !["satori_token"] = t] :
     a \in Replies("server"), t \in RepliesOrNone("satori_token")}

(* To refuse the file server leaves the configuration as it is.              *)
FileServerAsked(c) ==
  {c} \cup {[c EXCEPT !["file_enable"] = "user", !["file_url"] = url, !["file_ttl"] = ttl] :
               url \in RepliesOrNone("file_url"), ttl \in RepliesOrNone("file_ttl")}

(* interactiveConfigUpdate: only what is needed is asked for, and what was   *)
(* answered before the dialogue was broken off counts; to break it off once  *)
(* the kind of connection is chosen leaves that without its items.           *)
Updates(c) ==
  LET c1 == IF c["connection"] = "zero" THEN ConnectionAsked(c) ELSE {c}
      c2 == IF c["account"] = "zero" THEN UNION {AccountAsked(d) : d \in c1} ELSE c1
      c3 == IF c["file_enable"] # "zero" /\ c["file_url"] = "zero"
            THEN UNION {FileServerAsked(d) : d \in c2} ELSE c2
      c4 == IF c["server"] = "zero" THEN UNION {SatoriAsked(d) : d \in c3} ELSE c3
  IN  {c} \cup c1 \cup c2 \cup c3 \cup c4
        \cup {[d EXCEPT !["connection"] = "changed"] : d \in {c} \ c1}

(* mergeConfigStructs: what is not zero in the original wins; a boolean wins *)
(* in any case.                                                              *)
MergedByValue(o) ==
  [f \in Fields |-> IF o[f] # "zero" THEN o[f] ELSE DefaultConfig[f]]

MergedWithTemplate(o) ==
  [f \in Fields |-> IF f \in Booleans \/ o[f] # "zero" THEN o[f] ELSE DefaultConfig[f]]
-----------------------------------------------------------------------------
LoadConfig ==
  /\ loader = "down"
  /\ loader' = IF file.kind = "absent" THEN "first" ELSE "check"
  /\ orig' = file
  /\ UNCHANGED <<file, backup, conf, edits, cuts, settings, blind>>

(* SetConfigByInput on the default configuration; broken off, it ends the    *)
(* program.                                                                  *)
FirstConfig ==
  /\ loader = "first"
  /\ \/ /\ \E a \in AccountAsked(DefaultConfig) : \E c \in ConnectionAsked(a) :
              \E s \in FileServerAsked(c) : conf' \in SatoriAsked(s)
        /\ loader' = "firstWrite"
     \/ loader' = "down" /\ UNCHANGED conf
  /\ UNCHANGED <<file, backup, orig, edits, cuts, settings, blind>>

(* findMissingKeysRecursive does not look into a section that is no map: the *)
(* keys of one that ends behind its name count as there (see CutOff).        *)
Complete(d) == d.keys = Fields /\ ~d.unknown

(* ensureConfigComplete: text that cannot be parsed ends the program, and so *)
(* does a user who does not want the file mended.                            *)
EnsureConfigComplete ==
  /\ loader = "check"
  /\ \/ orig.kind # "garbage" /\ Complete(orig) /\ loader' = "load"
     \/ orig.kind # "garbage" /\ ~Complete(orig) /\ loader' \in {"backup", "down"}
     \/ orig.kind = "garbage" /\ loader' = "down"
  /\ blind' = (blind \/ (loader' = "backup" /\ orig.cut))
  /\ UNCHANGED <<file, backup, orig, conf, edits, cuts, settings>>

(* fixConfigFile: the backup is written, and replaces an older one; then the *)
(* merge, which is written out and parsed again, or the bare template if a   *)
(* value has the wrong type or what is written out cannot be parsed.         *)
BackupSkipped == UNCHANGED backup

BackedUp == backup' = orig

Backup ==
  /\ loader = "backup"
  /\ BackedUp
  /\ IF orig.kind = "mistyped"
     THEN conf' = DefaultConfig /\ loader' = "write"
     ELSE \E d \in DumpConfig(MergedWithTemplate(Unmarshalled(orig))) :
            IF d.kind = "garbage"
            THEN conf' = DefaultConfig /\ loader' = "write"
            ELSE conf' = d.val /\ loader' = "update"
  /\ UNCHANGED <<file, orig, edits, cuts, settings, blind>>

InteractiveUpdate ==
  /\ loader = "update"
  /\ conf' \in Updates(conf)
  /\ loader' = "write"
  /\ UNCHANGED <<file, backup, orig, edits, cuts, settings, blind>>

(* os.WriteFile of config.yml, in place.                                     *)
Write ==
  /\ loader \in {"write", "firstWrite"}
  /\ file' \in DumpConfig(conf)
  /\ settings' = settings \cup SetIn(file')
  /\ loader' = IF loader = "write" THEN "load" ELSE "up"
  /\ UNCHANGED <<backup, orig, conf, edits, cuts, blind>>

(* The file is read once more; main gives up on a configuration without an   *)
(* account.                                                                  *)
Load ==
  /\ loader = "load"
  /\ IF file.kind \in {"mistyped", "garbage"}
     THEN loader' = "down" /\ UNCHANGED conf
     ELSE /\ conf' = Unmarshalled(file)
          /\ loader' = IF file.val["account"] = "zero" THEN "down" ELSE "up"
  /\ UNCHANGED <<file, backup, orig, edits, cuts, settings, blind>>

(* What there is of a write of d: the first of its keys, the last of them    *)
(* perhaps without its value or with half a number, or with half a word for  *)
(* a boolean; everything up to `satori:'; or half a quotation.               *)
WrittenFirst(d, n) == d.keys \cap {FieldOrder[i] : i \in 1..n}

Stunted(d, f) ==
  {[d EXCEPT !.val[f] = v] :
     v \in {"zero"} \cup {"changed" : g \in {f} \ (Booleans \cup {"account", "file_url"})}}
    \cup {[d EXCEPT !.kind = "mistyped"] : g \in {f} \cap (Booleans \cup {"connection"})}

CutOff(d) ==
  LET Prefix(n) == Only(d, WrittenFirst(d, n))
      headed == [Only(d, d.keys \ Satori) EXCEPT !.keys = d.keys]
      prefixes == {Prefix(n) : n \in 0..Len(FieldOrder)}
      stunted == UNION {Stunted(Prefix(n), FieldOrder[n]) :
                          n \in {m \in 1..Len(FieldOrder) : FieldOrder[m] \in d.keys}}
  IN  {[e EXCEPT !.cut = TRUE] :
         e \in prefixes \cup stunted \cup {headed, [Absent EXCEPT !.kind = "garbage"]}}

(* The process ends.                                                         *)
Exit ==
  /\ loader # "down"
  /\ loader' = "down" /\ orig' = Absent /\ conf' = DefaultConfig
  /\ UNCHANGED <<file, backup, edits, cuts, settings, blind>>

(* A crash in a write, or a write that fails, which ends the process too.    *)
CutWrite ==
  /\ loader \in {"write", "firstWrite", "backup"} /\ cuts < MaxCuts
  /\ IF loader = "backup"
     THEN backup' \in CutOff(orig) /\ UNCHANGED file
     ELSE (\E d \in DumpConfig(conf) : file' \in CutOff(d)) /\ UNCHANGED backup
  /\ cuts' = cuts + 1
  /\ loader' = "down" /\ orig' = Absent /\ conf' = DefaultConfig
  /\ UNCHANGED <<edits, settings, blind>>

(* The user edits the file while the program is down, and with it decides    *)
(* anew what is set.  It may also be outdated: lack a key of the template or *)
(* have one that is gone.  A value is set, cleared or mistyped, or the       *)
(* backup is copied back.                                                    *)
Edited(d) ==
  LET outdated == {d, [d EXCEPT !.unknown = TRUE]} \cup {Only(d, d.keys \ {f}) : f \in Fields}
  IN  {backup} \cup outdated
        \cup {[o EXCEPT !.kind = "mistyped"] : o \in outdated}
        \cup UNION {UNION {{[o EXCEPT !.val[f] = v] : v \in RepliesOrNone(f)} : f \in o.keys} :
                      o \in outdated}

UserEdits ==
  /\ loader = "down" /\ edits < MaxEdits
  /\ file.kind # "absent"
  /\ file' \in {d \in Edited(file) : d.kind # "absent"}
  /\ edits' = edits + 1
  /\ settings' = SetIn(file') /\ blind' = FALSE
  /\ UNCHANGED <<loader, backup, orig, conf, cuts>>

ConfigNext ==
  \/ LoadConfig \/ FirstConfig \/ EnsureConfigComplete \/ Backup
  \/ InteractiveUpdate \/ Write \/ Load \/ Exit \/ CutWrite \/ UserEdits

ConfigSpec == ConfigInit /\ [][ConfigNext]_configVars
-----------------------------------------------------------------------------
(* Nothing the user has set is ever in neither of the two files, at no      *)
(* point of the update and after no crash in it: the backup is complete     *)
(* before the file is touched.  Only a second update, which backs up the    *)
(* file that a crash has cut off, may lose settings.                        *)
SettingsRecoverable == blind \/ settings \subseteq SetIn(file) \cup SetIn(backup)

(* The program runs with what the file it was started with says.  A         *)
(* complete file is taken as it is.  Of one that had to be mended, through  *)
(* the merge, two writings and the dialogue, every value the user had set   *)
(* stays in force - text only if the template writes it as it is - and no   *)
(* boolean is turned on that was off, although the template may have it on. *)
(* The exceptions are what a dialogue about another field asks for anew:    *)
(* the Satori token when the server is not set, the ttl of the files when   *)
(* their address is not.                                                    *)
AskedAnew(o) ==
  {f \in {"satori_token"} : o["server"] # "user"}
    \cup {f \in {"file_ttl"} : o["file_enable"] # "zero" /\ o["file_url"] # "user"}

SettingsInEffect ==
  loader = "up" /\ orig.kind # "absent" =>
    LET o == Unmarshalled(orig)
    IN  /\ Complete(orig) => conf = o
        /\ \A f \in Fields \ AskedAnew(o) : o[f] = "user" => conf[f] = "user"
        /\ \A f \in Booleans : o[f] = "zero" => conf[f] = "zero"

=============================================================================
