------------------------------ MODULE Settings ------------------------------
(***************************************************************************)
(* profile.yml as a file of lines (profile_yml.py): how phase 50 patches   *)
(* the settings of config.yml into what wso and people wrote there, and    *)
(* whether the comparison that decides on it agrees with what was written. *)
(***************************************************************************)
EXTENDS Naturals, SequencesExt

CONSTANTS
  SCALARS,    \* the scalar keys, in the order of the template
  Values,     \* what they can be set to
  NoValue,    \* the key is not set
  Blank,      \* white space, as a value
  Colon,      \* an nfs_path that begins with a colon
  Plain,      \* a value as a number reads: "04" as "4", others as they are
  Versions,   \* of NFS, that the validation knows
  Hosts,      \* of syslog servers
  Configs,    \* the deployment_settings the operator may write
  Shipped,    \* the keys the template has a sample line for, in its order
  Tampered,   \* the keys edited by hand
  Edits       \* bound: the edits of either file, and the runs nothing calls for

Scalars == Range(SCALARS)
Raw     == Values \cup {NoValue, Blank, Colon}

\* A logging section: the loki backend, absent, whole or without its url, and
\* the syslog entries. "word" is a port that is none.
Ports   == {"unset", "514", "6514", "word"}
Entry   == [host : Hosts \cup {NoValue}, port : Ports]
Section == [loki : {"absent", "whole", "no_url"}, syslog : Seq(Entry)]
NoSection == [loki |-> "absent", syslog |-> <<>>]

ASSUME SettingsAssumption ==
  /\ SCALARS \in Seq(Scalars) /\ IsInjective(SCALARS)
  /\ {"nfs_host", "nfs_path", "nfs_version"} \subseteq Scalars
  /\ NoValue \notin Values /\ Blank # NoValue
  /\ Plain \in [Raw -> Raw]
  /\ \A v \in Raw : Plain[Plain[v]] = Plain[v] /\ (Plain[v] = NoValue <=> v = NoValue)
  /\ Configs \subseteq [scalar : [Scalars -> Raw], logging : Section]
  /\ Shipped \in Seq(Scalars) /\ Tampered \subseteq Scalars
  /\ Edits \in Nat

VARIABLES
  config,   \* deployment_settings of config.yml
  file,     \* the lines of profile.yml on the bootstrap
  outcome,  \* of the last patch: "none", "applied" or "refused"
  edits

settings == <<config, file, outcome, edits>>

\* The n-th smallest of a set of numbers, and the elements of s at the places
\* of a set, in their order.  (With <<>>, TLC computes the elements once.)
Nth(places, n) == CHOOSE i \in places : Cardinality({j \in places : j <= i}) = n

Picked(s, places) ==
  <<>> \o [n \in 1..Cardinality(places) |-> s[Nth(places, n)]]

----------------------------------------------------------------------------
(* Lines. One line stands for a section `logging:` with all below it.      *)

Kinds == {"sample", "live", "inner", "foreign", "doc", "empty", "mark", "end", "logging"}

Line(is, key, val) == [is |-> is, key |-> key, val |-> val, section |-> NoSection]

Sample(k)   == Line("sample", k, NoValue)  \* "#ntp_server: us.pool.ntp.org"
Live(k, v)  == Line("live", k, v)
Inner(k)    == Line("inner", k, NoValue)   \* indented, below somebody's key
Foreign     == Line("foreign", "product", NoValue)  \* a key of wso's, or of people
Doc         == Line("doc", "none", NoValue)         \* any other comment
Empty       == Line("empty", "none", NoValue)
Mark        == Line("mark", "none", NoValue)        \* _MARK
DocumentEnd == Line("end", "none", NoValue)         \* "..."
Logging(s)  == [Line("logging", "logging", NoValue) EXCEPT !.section = s]

\* What `wso access init` writes.
Template == <<Foreign, Doc>> \o [i \in DOMAIN Shipped |-> Sample(Shipped[i])]

SettingsInit ==
  /\ config \in Configs /\ file = Template /\ outcome = "none" /\ edits = 0

----------------------------------------------------------------------------
(* What config.yml asks for.                                               *)

Stripped(v) == IF v = Blank THEN NoValue ELSE v
Says(c, k)  == Stripped(c.scalar[k]) # NoValue

\* _scalar_line: only the version is written as a number.
Written(k, v) == IF k = "nfs_version" THEN Plain[v] ELSE v

\* _check_deployment_settings, which looks at the values as they stand.
Accepts(c) ==
  /\ (c.scalar["nfs_host"] # NoValue) = (c.scalar["nfs_path"] # NoValue)
  /\ c.scalar["nfs_path"] # Colon
  /\ c.scalar["nfs_version"] \in Versions \cup {NoValue}
  /\ c.scalar["nfs_version"] # NoValue => c.scalar["nfs_host"] # NoValue
  /\ c.logging.loki # "no_url"
  /\ Len(c.logging.syslog) <= 2
  /\ \A i \in DOMAIN c.logging.syslog :
       c.logging.syslog[i].host # NoValue /\ c.logging.syslog[i].port # "word"

\* syslog_entries: at most two.
SyslogEntries(s) == SubSeq(s.syslog, 1, IF Len(s.syslog) < 2 THEN Len(s.syslog) ELSE 2)

Named(entries) == Picked(entries, {i \in DOMAIN entries : entries[i].host # NoValue})

\* _logging_block: what carries a value; a port that is none is left out, one
\* that is not set is written with its default.
LoggingBlock(s) ==
  [loki   |-> IF s.loki = "whole" THEN "whole" ELSE "absent",
   syslog |-> [i \in DOMAIN Named(SyslogEntries(s)) |->
                 [Named(SyslogEntries(s))[i] EXCEPT !.port =
                    CASE @ = "unset" -> "514" [] @ = "word" -> "unset" [] OTHER -> @]]]

IsConfigured(c) ==
  (\E k \in Scalars : Says(c, k)) \/ LoggingBlock(c.logging) # NoSection

----------------------------------------------------------------------------
(* The comparison.                                                         *)

\* _flatten_logging, as key and value; a port that is not set counts as 514,
\* one that is none does not count.
FlattenLogging(s) ==
  LET entries == Named(SyslogEntries(s)) IN
  (IF s.loki = "whole" THEN {<<"loki_url", 0, "whole">>} ELSE {})
    \cup {<<"syslog_host", i, entries[i].host>> : i \in DOMAIN entries}
    \cup {<<"syslog_port", i, IF entries[i].port = "unset" THEN "514" ELSE entries[i].port>> :
            i \in {j \in DOMAIN entries : entries[j].port # "word"}}

\* The file as YAML reads it: the last of a key counts, what follows the end of
\* the document is a second document, and what is indented belongs to the key
\* above it, whatever comments are between; one of ours has a value already.
IsKey(l) == l.is \in {"live", "foreign", "logging"}

Holders(f, i) == {j \in DOMAIN f : j < i /\ IsKey(f[j])}

Readable(f) ==
  \A i \in DOMAIN f :
    /\ f[i].is = "inner" => Holders(f, i) # {} /\ f[Max(Holders(f, i))].is # "live"
    /\ IsKey(f[i]) \/ f[i].is = "inner" => \A j \in DOMAIN f : j < i => f[j].is # "end"

LiveValue(f, k) ==
  LET at == {i \in DOMAIN f : f[i].is = "live" /\ f[i].key = k} IN
  IF at = {} THEN NoValue ELSE f[Max(at)].val

LiveSection(f) ==
  LET at == {i \in DOMAIN f : f[i].is = "logging"} IN
  IF at = {} THEN NoSection ELSE f[Max(at)].section

\* _flatten, of config.yml and of the file: numbers count as such (_scalar).
Wanted(c) == {<<k, 0, Plain[Stripped(c.scalar[k])]>> : k \in {q \in Scalars : Says(c, q)}}
               \cup FlattenLogging(c.logging)

Found(f) == {<<k, 0, Plain[LiveValue(f, k)]>> : k \in {q \in Scalars : LiveValue(f, q) # NoValue}}
              \cup FlattenLogging(LiveSection(f))

KeyOf(item) == <<item[1], item[2]>>

\* actionable_keys of a file that can be read.
ActionableKeys(f, c) == {KeyOf(w) : w \in Wanted(c) \ Found(f)}

----------------------------------------------------------------------------
(* The patch.                                                              *)

Without(f, gone) == Picked(f, DOMAIN f \ gone)

Matches(f, k, kinds) == {i \in DOMAIN f : f[i].key = k /\ f[i].is \in kinds}

\* Mutant of SetScalar: a later line of the key is kept.
SetScalarOnce(f, k, v) ==
  LET at == Matches(f, k, {"sample", "live"}) IN
  IF at = {} THEN Append(f, Live(k, v)) ELSE [f EXCEPT ![Min(at)] = Live(k, v)]

\* _set_scalar: the first line of the key, commented out or not, is replaced
\* and later ones that are not commented out go; without one it is appended.
SetScalar(f, k, v) ==
  LET at == Matches(f, k, {"sample", "live"}) IN
  IF at = {} THEN Append(f, Live(k, v))
  ELSE Without([f EXCEPT ![Min(at)] = Live(k, v)], Matches(f, k, {"live"}) \ {Min(at)})

Trimmed(f) ==
  SubSeq(f, 1, Max({0} \cup {i \in DOMAIN f : f[i].is # "empty"}))

\* Mutant of DropBlock: everything from the mark on goes.
DropBlockToTheEnd(f) ==
  LET at == {i \in DOMAIN f : f[i].is = "mark"} IN
  IF at = {} THEN f ELSE Trimmed(SubSeq(f, 1, Min(at) - 1))

\* _drop_block: from the mark on, unless another key is found there.
DropBlock(f) ==
  LET at == {i \in DOMAIN f : f[i].is = "mark"} IN
  IF at = {} \/ (\E i \in DOMAIN f : i > Min(at) /\ f[i].is \in {"live", "foreign"}) THEN f
  ELSE Trimmed(SubSeq(f, 1, Min(at) - 1))

\* Those of the scalars that are set, in order.
SetScalars(f, c) ==
  LET set[n \in 0..Len(SCALARS)] ==
        IF n = 0 THEN f
        ELSE IF Says(c, SCALARS[n])
             THEN SetScalar(set[n - 1], SCALARS[n],
                            Written(SCALARS[n], Stripped(c.scalar[SCALARS[n]])))
             ELSE set[n - 1]
  IN  set[Len(SCALARS)]

Block(c) ==
  LET section == LoggingBlock(c.logging) IN
  IF section = NoSection THEN <<>> ELSE <<Empty, Mark, Logging(section)>>

\* patch: the old block goes first, then the scalars are set, and the new
\* block comes last.
Patch(f, c) == SetScalars(DropBlock(f), c) \o Block(c)

\* Phase 50 runs for a key that can be rolled out (classify: never for one of
\* the logging section); for any other reason once after an edit, and beyond
\* that as often as `edits` allows.
RunIsDue == Readable(file) /\ \E key \in ActionableKeys(file, config) : key[1] \in Scalars

Runs50 ==
  IF RunIsDue \/ outcome = "none" THEN UNCHANGED edits
  ELSE edits < Edits /\ edits' = edits + 1

\* _apply_profile, behind the validation every deploy begins with; a file that
\* would not be readable is not written.
Apply ==
  /\ Accepts(config) /\ IsConfigured(config) /\ Runs50
  /\ LET patched == Patch(file, config) IN
     IF Readable(patched)
     THEN file' = patched /\ outcome' = "applied"
     ELSE outcome' = "refused" /\ UNCHANGED file
  /\ UNCHANGED config

----------------------------------------------------------------------------
(* The operator.                                                           *)

EditConfig ==
  /\ edits < Edits /\ edits' = edits + 1
  /\ config' \in Configs \ {config} /\ outcome' = "none" /\ UNCHANGED file

Extras ==
  {<<Live(k, v)>> : k \in Tampered, v \in Values}
    \cup {<<Foreign, Inner(k)>> : k \in Tampered}
    \cup {<<Sample(k)>> : k \in Tampered}
    \cup {<<Doc>>, <<Empty>>, <<DocumentEnd>>, <<Logging([NoSection EXCEPT !.loki = "whole"])>>}

\* Somebody adds lines, a key with what is indented below it among them, ...
Insert(i, lines) ==
  file' = SubSeq(file, 1, i - 1) \o lines \o SubSeq(file, i, Len(file))

\* ... edits the mark, ...
RewordMark(i) == file[i].is = "mark" /\ file' = [file EXCEPT ![i] = Doc]

\* ... or moves it up, to between a key and what is indented below it as well.
MoveMark(i, j) ==
  /\ file[i].is = "mark" /\ j < i
  /\ file' = SubSeq(file, 1, j - 1) \o <<Mark>> \o SubSeq(file, j, i - 1)
               \o SubSeq(file, i + 1, Len(file))

HandEdit ==
  /\ edits < Edits /\ edits' = edits + 1
  /\ \/ \E i \in 1..(Len(file) + 1), lines \in Extras : Insert(i, lines)
     \/ \E i \in DOMAIN file : RewordMark(i)
     \/ \E i, j \in DOMAIN file : MoveMark(i, j)
  /\ outcome' = "none" /\ UNCHANGED config

SettingsNext == Apply \/ EditConfig \/ HandEdit

SettingsSpec == SettingsInit /\ [][SettingsNext]_settings

----------------------------------------------------------------------------
(* Properties.                                                             *)

Kept(f, kinds) == Picked(f, {i \in DOMAIN f : f[i].is \in kinds})

\* The block is where a patch puts it: one mark, and no key below it.
InOrder(f) ==
  \A i, j \in DOMAIN f :
    i < j /\ f[i].is = "mark" => f[j].is \notin {"mark", "live", "foreign"}

\* What a patch wrote, the comparison finds there: after it, no key is left
\* that phase 50 would set out to write again (p50_cluster_init.py:285-316), and
\* another patch would change nothing but empty lines, unless somebody had put
\* a key below the mark.
Settles ==
  [][outcome' = "applied" =>
       /\ Readable(file') /\ ActionableKeys(file', config) = {}
       /\ InOrder(file) => Kept(Patch(file', config), Kinds \ {"empty"})
                             = Kept(file', Kinds \ {"empty"})]_settings

Above(f) ==
  LET at == {i \in DOMAIN f : f[i].is = "mark"} IN
  IF at = {} THEN f ELSE SubSeq(f, 1, Min(at) - 1)

\* Lines are indented below a mark without a key of their own in between: those
\* of a key above the mark, or of the section `logging:` below it.
Torn(f) ==
  \E i, j \in DOMAIN f :
    /\ i < j /\ f[i].is = "mark" /\ f[j].is = "inner"
    /\ \A n \in DOMAIN f : i < n /\ n < j => f[n].is \notin {"live", "foreign"}

\* The rest is left as found (profile_yml.py:9-15): the keys of others, the
\* comments down to the mark, and what is indented below a key, unless the mark
\* tears it off.
OthersKept ==
  [][outcome' # "none" =>
       /\ Kept(file', {"foreign"}) = Kept(file, {"foreign"})
       /\ ~Torn(file) => Kept(file', {"foreign", "inner"}) = Kept(file, {"foreign", "inner"})
       /\ IsPrefix(Kept(Above(file), {"doc"}), Kept(file', {"doc"}))]_settings

\* What is indented below a key of others is left as found wherever the mark is
\* (profile_yml.py:277). Not so: see the README.
IndentedKept ==
  [][outcome' # "none" =>
       Kept(file', {"foreign", "inner"}) = Kept(file, {"foreign", "inner"})]_settings

\* The comments below the mark as well. Not so: see the README.
CommentsKept == [][Apply => Kept(file', {"doc"}) = Kept(file, {"doc"})]_settings

\* Host and path of the backup are written together, the path without a colon
\* (validate.py:203-219). Not so with Blank values: see the README.
NfsIsWhole ==
  Accepts(config) => Says(config, "nfs_host") = Says(config, "nfs_path")
=============================================================================
