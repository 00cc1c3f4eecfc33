------------------------------ MODULE SetupData ------------------------------
(***************************************************************************)
(* The pure part of the operator: how newSetupConfigMap computes the       *)
(* content of the setup ConfigMap (plugins.txt and jenkins.yaml) and how   *)
(* it is merged with the content that is already there.                    *)
(*                                                                         *)
(* A ConfigMap's data is a function from file names to contents.  The text *)
(* of plugins.txt is the sequence of its lines, each the [id, version]     *)
(* pair that "id:version" spells; any other text is an element of Texts.   *)
(***************************************************************************)
EXTENDS Naturals, Sequences, SequencesExt

CONSTANTS
    RequiredPlugins,  \* the built-in list, a sequence of [id, version] pairs
    PluginSpecs,      \* the spec.plugins users may give, sequences of such pairs
    Folded,           \* a function from plugin ids to their case-folded form
    Texts,            \* the other texts a ConfigMap or Secret may hold
    DataKeys          \* the file names a ConfigMap or Secret may hold

(* Lists of plugins, and those that name none twice, in whatever spelling. *)
PluginLists == Seq([id : DOMAIN Folded, version : STRING])
NamesOnce(list) ==
    \A i, j \in DOMAIN list : Folded[list[i].id] = Folded[list[j].id] => i = j

(* The list built into the operator names no plugin twice.                  *)
ASSUME SetupDataAssumption ==
    /\ PluginSpecs \cup {RequiredPlugins} \subseteq PluginLists
    /\ NamesOnce(RequiredPlugins)
    /\ {"plugins.txt", "jenkins.yaml"} \subseteq DataKeys

(* Mutant: ids are compared as they are spelled.                            *)
SameSpelling(p, q) == p.id = q.id

(* strings.EqualFold on the part of a line before the first colon. *)
SamePlugin(p, q) == Folded[p.id] = Folded[q.id]

(* One round of the loop over spec.plugins: a plugin is appended unless a  *)
(* line already there, required or added earlier, has the same id.         *)
AddPlugin(list, plugin) ==
    IF \E i \in DOMAIN list : SamePlugin(list[i], plugin)
    THEN list
    ELSE Append(list, plugin)

(* The lines after each round, the required ones before the first.          *)
PluginList(plugins) ==
    LET lines[i \in 0..Len(plugins)] ==
            IF i = 0 THEN RequiredPlugins ELSE AddPlugin(lines[i - 1], plugins[i])
    IN  lines[Len(plugins)]

(* The list a pod installs from: the required plugins first, none twice.    *)
WellListed(lines) == IsPrefix(RequiredPlugins, lines) /\ NamesOnce(lines)

Contents == Texts \cup {PluginList(plugins) : plugins \in PluginSpecs}

DataMaps == UNION {[D -> Contents] : D \in SUBSET DataKeys}

(* Mutant: the first map wins.                                              *)
MergeUnder(m1, m2) ==
    [k \in DOMAIN m1 \cup DOMAIN m2 |-> IF k \in DOMAIN m1 THEN m1[k] ELSE m2[k]]

(* util.MergeData of two maps: a key of the second hides that of the first. *)
MergeData(m1, m2) ==
    [k \in DOMAIN m1 \cup DOMAIN m2 |-> IF k \in DOMAIN m2 THEN m2[k] ELSE m1[k]]

(* The local stringData of newSetupConfigMap; "" is Go's unset string. *)
StringData(plugins, configString) ==
    MergeData([f \in {"plugins.txt"} |-> PluginList(plugins)],
              [f \in {"jenkins.yaml"} \ (IF configString = "" THEN {"jenkins.yaml"} ELSE {})
                  |-> configString])
=============================================================================
