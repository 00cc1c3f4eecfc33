--------------------------- MODULE SetupData_proofs ---------------------------
(***************************************************************************)
(* What the loop over spec.plugins builds, and what every merge of         *)
(* ConfigMap contents keeps, for all file names, texts and plugin lists.   *)
(***************************************************************************)
EXTENDS SetupData, NaturalLemmas, TLAPS

(* The loop over spec.plugins has a run: lines[i] is the list after round i.*)
LEMMA PluginRounds ==
    ASSUME NEW plugins \in PluginLists
    PROVE  \E lines :
              /\ lines = [i \in 0..Len(plugins) |->
                            IF i = 0 THEN RequiredPlugins
                                     ELSE AddPlugin(lines[i - 1], plugins[i])]
              /\ PluginList(plugins) = lines[Len(plugins)]
<1> DEFINE n == Len(plugins)
           Round(f, i) == IF i = 0 THEN RequiredPlugins ELSE AddPlugin(f[i - 1], plugins[i])
           Good == {m \in 0..n : \E f : f = [i \in 0..m |-> Round(f, i)]}
<1>1. n \in Nat
  BY DEF PluginLists
<1>2. 0 \in Good
  <2> DEFINE f == [i \in 0..0 |-> RequiredPlugins]
  <2>1. f = [i \in 0..0 |-> Round(f, i)]
    OBVIOUS
  <2>2. 0 \in 0..n
    BY <1>1
  <2> HIDE DEF f, n, Round
  <2> QED
    BY <2>1, <2>2
<1>3. ASSUME NEW m \in 1..n, m - 1 \in Good
      PROVE  m \in Good
  <2>1. PICK f : f = [i \in 0..(m - 1) |-> Round(f, i)]
    BY <1>3
  <2> DEFINE g == [i \in 0..m |-> IF i = m THEN AddPlugin(f[m - 1], plugins[m]) ELSE f[i]]
  <2>2. ASSUME NEW i \in 0..m
        PROVE  g[i] = Round(g, i)
    <3>1. CASE i = m
      <4>1. g[m] = AddPlugin(f[m - 1], plugins[m]) /\ g[m - 1] = f[m - 1]
        BY <1>1
      <4> QED
        BY <3>1, <4>1
    <3>2. CASE i # m
      <4>1. i \in 0..(m - 1) /\ g[i] = f[i]
        BY <1>1, <3>2
      <4>2. f[i] = Round(f, i)
        BY <2>1, <4>1
      <4>3. i # 0 => i - 1 \in 0..m /\ i - 1 # m
        BY <1>1, <4>1
      <4>4. i # 0 => g[i - 1] = f[i - 1]
        BY <4>3
      <4> QED
        BY <4>1, <4>2, <4>4
    <3> QED
      BY <3>1, <3>2
  <2>3. g = [i \in 0..m |-> Round(g, i)]
    BY <2>2
  <2>4. m \in 0..n
    BY <1>1
  <2> HIDE DEF g, n, Round
  <2> QED
    BY <2>3, <2>4
<1>4. n \in Good
  <2> HIDE DEF Good, n
  <2>1. 0..n \subseteq Good
    BY <1>1, <1>2, <1>3, SegmentInduction
  <2> QED
    BY <1>1, <2>1
<1>5. PluginList(plugins) =
        (CHOOSE f : f = [i \in 0..n |-> Round(f, i)])[n]
  BY DEF PluginList
<1> QED
  BY <1>4, <1>5

(* One round keeps what the list must be: AddPlugin appends at the end, and *)
(* only a plugin no line names.                                             *)
LEMMA AddPluginKeeps ==
    ASSUME NEW list \in PluginLists, WellListed(list),
           NEW plugin \in [id : DOMAIN Folded, version : STRING]
    PROVE  AddPlugin(list, plugin) \in PluginLists /\ WellListed(AddPlugin(list, plugin))
<1> DEFINE more == Append(list, plugin)
<1>1. CASE \E i \in DOMAIN list : SamePlugin(list[i], plugin)
  BY <1>1 DEF AddPlugin
<1>2. CASE ~ \E i \in DOMAIN list : SamePlugin(list[i], plugin)
  <2>1. /\ more \in PluginLists
        /\ Len(more) = Len(list) + 1
        /\ DOMAIN list = 1..Len(list) /\ DOMAIN more = 1..(Len(list) + 1)
        /\ \A i \in 1..Len(list) : more[i] = list[i]
        /\ more[Len(list) + 1] = plugin
        /\ Len(list) \in Nat
    BY DEF PluginLists
  <2>2. NamesOnce(more)
    <3> SUFFICES ASSUME NEW i \in DOMAIN more, NEW j \in DOMAIN more,
                        Folded[more[i].id] = Folded[more[j].id]
                 PROVE  i = j
      BY DEF NamesOnce
    <3>1. \A h \in DOMAIN list : Folded[list[h].id] # Folded[plugin.id]
      BY <1>2 DEF SamePlugin
    <3>2. \A h \in DOMAIN more : h \in DOMAIN list \/ h = Len(list) + 1
      BY <2>1
    <3>3. CASE i \in DOMAIN list /\ j \in DOMAIN list
      BY <2>1, <3>3 DEF WellListed, NamesOnce
    <3>4. CASE i \in DOMAIN list /\ j = Len(list) + 1
      BY <2>1, <3>1, <3>4
    <3>5. CASE i = Len(list) + 1 /\ j \in DOMAIN list
      BY <2>1, <3>1, <3>5
    <3> QED
      BY <3>2, <3>3, <3>4, <3>5
  <2>3. IsPrefix(RequiredPlugins, more)
    <3>1. RequiredPlugins \in PluginLists
      BY SetupDataAssumption DEF SetupDataAssumption
    <3>2. Len(RequiredPlugins) \in Nat /\ Len(RequiredPlugins) <= Len(list)
      BY <3>1 DEF WellListed, IsPrefix, PluginLists
    <3>3. SubSeq(more, 1, Len(RequiredPlugins)) = SubSeq(list, 1, Len(RequiredPlugins))
      BY <2>1, <3>2
    <3> QED
      BY <2>1, <3>2, <3>3 DEF WellListed, IsPrefix
  <2>4. AddPlugin(list, plugin) = more
    BY <1>2 DEF AddPlugin
  <2> QED
    BY <2>1, <2>2, <2>3, <2>4 DEF WellListed
<1> QED
  BY <1>1, <1>2

(* Whatever a spec lists, newSetupConfigMap writes the required plugins     *)
(* first and every plugin once, however it is spelled.                      *)
THEOREM PluginListWell ==
    ASSUME NEW plugins \in PluginSpecs
    PROVE  WellListed(PluginList(plugins))
<1> DEFINE n == Len(plugins)
<1>1. /\ plugins \in PluginLists /\ RequiredPlugins \in PluginLists
      /\ n \in Nat
      /\ \A i \in 1..n : plugins[i] \in [id : DOMAIN Folded, version : STRING]
  <2>1. plugins \in PluginLists /\ RequiredPlugins \in PluginLists
    BY SetupDataAssumption DEF SetupDataAssumption
  <2> DEFINE Plugins == [id : DOMAIN Folded, version : STRING]
  <2>2. plugins \in Seq(Plugins)
    BY <2>1 DEF PluginLists
  <2> HIDE DEF Plugins
  <2>3. n \in Nat /\ \A i \in 1..n : plugins[i] \in Plugins
    BY <2>2
  <2> QED
    BY <2>1, <2>3 DEF Plugins
<1>2. PICK lines :
         /\ lines = [i \in 0..n |-> IF i = 0 THEN RequiredPlugins
                                    ELSE AddPlugin(lines[i - 1], plugins[i])]
         /\ PluginList(plugins) = lines[n]
  BY <1>1, PluginRounds
<1> DEFINE Good == {i \in 0..n : lines[i] \in PluginLists /\ WellListed(lines[i])}
<1>3. 0 \in Good
  <2>1. WellListed(RequiredPlugins)
    BY <1>1, SetupDataAssumption DEF SetupDataAssumption, WellListed, IsPrefix, PluginLists
  <2>2. lines[0] = RequiredPlugins
    BY <1>1, <1>2
  <2> QED
    BY <1>1, <2>1, <2>2
<1>4. ASSUME NEW i \in 1..n, i - 1 \in Good
      PROVE  i \in Good
  <2>1. i \in 0..n /\ lines[i] = AddPlugin(lines[i - 1], plugins[i])
    BY <1>1, <1>2
  <2>2. lines[i] \in PluginLists /\ WellListed(lines[i])
    BY <1>1, <1>4, <2>1, AddPluginKeeps
  <2> QED
    BY <2>1, <2>2
<1>5. n \in Good
  <2> HIDE DEF Good, n
  <2>1. 0..n \subseteq Good
    BY <1>1, <1>3, <1>4, SegmentInduction
  <2> QED
    BY <1>1, <2>1
<1> QED
  BY <1>2, <1>5

(* A ConfigMap's data, spelt out.                                           *)
LEMMA DataMapsDef ==
    ASSUME NEW m
    PROVE  m \in DataMaps <=>
              \E D \in SUBSET DataKeys : m \in [D -> Contents]
BY DEF DataMaps

(* The merge of two ConfigMap contents is one again: util.MergeData         *)
(* invents neither a file name nor a text.                                  *)
LEMMA MergeDataTyped ==
    ASSUME NEW m1 \in DataMaps, NEW m2 \in DataMaps
    PROVE  MergeData(m1, m2) \in DataMaps
<1>1. PICK D1 \in SUBSET DataKeys : m1 \in [D1 -> Contents]
  BY DataMapsDef
<1>2. PICK D2 \in SUBSET DataKeys : m2 \in [D2 -> Contents]
  BY DataMapsDef
<1>3. MergeData(m1, m2) \in [D1 \cup D2 -> Contents]
  BY <1>1, <1>2 DEF MergeData
<1> QED
  BY <1>3, DataMapsDef

(* Every entry of the second map survives util.MergeData, whatever the      *)
(* first one says: newSetupConfigMap passes what is in the cluster second.  *)
LEMMA MergeDataKeeps ==
    ASSUME NEW m1, NEW m2
    PROVE  \A f \in DOMAIN m2 : /\ f \in DOMAIN MergeData(m1, m2)
                                /\ MergeData(m1, m2)[f] = m2[f]
BY DEF MergeData

(* What newSetupConfigMap computes from a spec is the content of a          *)
(* ConfigMap.                                                               *)
LEMMA StringDataTyped ==
    ASSUME NEW plugins \in PluginSpecs, NEW config \in Texts \cup {""}
    PROVE  StringData(plugins, config) \in DataMaps
<1> DEFINE list == [f \in {"plugins.txt"} |-> PluginList(plugins)]
           yaml == [f \in {"jenkins.yaml"} \ (IF config = "" THEN {"jenkins.yaml"} ELSE {})
                      |-> config]
<1>1. list \in DataMaps
  <2>1. list \in [{"plugins.txt"} -> Contents]
    BY DEF Contents
  <2>2. {"plugins.txt"} \subseteq DataKeys
    BY SetupDataAssumption DEF SetupDataAssumption
  <2> QED
    BY <2>1, <2>2, DataMapsDef
<1>2. yaml \in DataMaps
  <2>1. CASE config = ""
    <3>1. yaml \in [{} -> Contents]
      BY <2>1
    <3> QED
      BY <3>1, DataMapsDef
  <2>2. CASE config # ""
    <3>1. yaml \in [{"jenkins.yaml"} -> Contents]
      BY <2>2 DEF Contents
    <3>2. {"jenkins.yaml"} \subseteq DataKeys
      BY SetupDataAssumption DEF SetupDataAssumption
    <3> QED
      BY <3>1, <3>2, DataMapsDef
  <2> QED
    BY <2>1, <2>2
<1>3. StringData(plugins, config) = MergeData(list, yaml)
  BY DEF StringData
<1> QED
  BY <1>1, <1>2, <1>3, MergeDataTyped

(* Its plugins.txt is the list the loop built.                              *)
LEMMA StringDataLists ==
    ASSUME NEW plugins \in PluginSpecs, NEW config
    PROVE  /\ "plugins.txt" \in DOMAIN StringData(plugins, config)
           /\ WellListed(StringData(plugins, config)["plugins.txt"])
<1>1. /\ "plugins.txt" \in DOMAIN StringData(plugins, config)
      /\ StringData(plugins, config)["plugins.txt"] = PluginList(plugins)
  BY DEF StringData, MergeData
<1> QED
  BY <1>1, PluginListWell
=============================================================================
