--------------------------- MODULE ConfigLoad_proofs ---------------------------
(***************************************************************************)
(* Proofs about the configuration a collector loads, for any configuration *)
(* that is a tree of maps, any environments of CloudEnvironments and any   *)
(* cuts: that the settings of the user and the server survive patches,     *)
(* crashes and the merge, that a pipeline never names an undefined         *)
(* processor and that detectors with settings are listed and get them; and *)
(* that the patch absorbs an earlier one, which ConfigFile assumes.        *)
(*                                                                         *)
(* Everything a patch or a merge does is an Overlay; the lemmas say what   *)
(* is found at each path after it.                                         *)
(***************************************************************************)
EXTENDS ConfigLoad, ConfigFile_proofs

\* What an overlay holds, and where it has it from.
LEMMA OverlayAt ==
    ASSUME NEW base, NEW nodes
    PROVE  /\ DOMAIN Overlay(base, nodes)
                 = {p \in DOMAIN base : Stays(p, nodes)} \cup DOMAIN nodes
           /\ \A p \in DOMAIN nodes : Overlay(base, nodes)[p] = nodes[p]
           /\ \A p \in DOMAIN base : p \notin DOMAIN nodes /\ Stays(p, nodes)
                  => Overlay(base, nodes)[p] = base[p]
BY DEF Overlay

\* The maps that the settings of the processor lead through.
LEMMA AboveProcessors ==
    ASSUME NEW key, NEW name
    PROVE  /\ Above(Processors) = {} /\ Above(Processor) = {Processors}
           /\ Above(Setting(key)) = {Processors, Processor}
           /\ Above(Attributes(key)) = {Processors, Processor, Setting(key)}
           /\ Above(Attribute(key, name)) = {Processors, Processor, Setting(key), Attributes(key)}
           /\ Above(HostnameSources) = {Processors, Processor, Setting("system")}
           /\ Above(NodeName) = {Processors, Processor, Setting("k8snode")}
<1>1. /\ Above(Processors) = {} /\ Above(Processor) = {Processors}
      /\ Above(Setting(key)) = {Processors, Processor}
  BY DEF Above, Processors, Processor, ProcessorKey, Setting
<1>2. Above(Attributes(key)) = {Processors, Processor, Setting(key)}
  BY DEF Above, Processors, Processor, ProcessorKey, Setting, Attributes
<1>3. Above(Attribute(key, name)) = {Processors, Processor, Setting(key), Attributes(key)}
  BY DEF Above, Processors, Processor, ProcessorKey, Setting, Attributes, Attribute
<1>4. /\ Above(HostnameSources) = {Processors, Processor, Setting("system")}
      /\ Above(NodeName) = {Processors, Processor, Setting("k8snode")}
  BY DEF Above, Processors, Processor, ProcessorKey, Setting, HostnameSources, NodeName
<1> QED
  BY <1>1, <1>2, <1>3, <1>4

\* The maps that a pipeline's entries lead through.
ToPipeline(name) ==
    {<<"service">>, <<"service", "pipelines">>, <<"service", "pipelines", name>>}

\* They are above its receivers and its processors.
LEMMA AbovePipelines ==
    ASSUME NEW name
    PROVE  /\ Above(ReceiversOf(name)) = ToPipeline(name)
           /\ Above(ProcessorsOf(name)) = ToPipeline(name)
<1>1. Above(ReceiversOf(name)) = ToPipeline(name)
  BY DEF Above, ReceiversOf, ToPipeline
<1>2. Above(ProcessorsOf(name)) = ToPipeline(name)
  BY DEF Above, ProcessorsOf, ToPipeline
<1> QED
  BY <1>1, <1>2

\* Nothing of the processor is on the way to a pipeline.
LEMMA Distinct ==
    ASSUME NEW name, NEW key, NEW n,
           NEW p \in {Processors, Processor, HostnameSources, NodeName, Setting(key),
                      Attributes(key), Attribute(key, n)}
    PROVE  /\ p # ReceiversOf(name) /\ p # ProcessorsOf(name)
           /\ p \notin ToPipeline(name)
BY DEF Processors, Processor, HostnameSources, NodeName, Setting, Attributes, Attribute,
       ReceiversOf, ProcessorsOf, ProcessorKey, ToPipeline

\* In particular its settings are not.
LEMMA DistinctSetting ==
    ASSUME NEW name, NEW key
    PROVE  /\ ReceiversOf(name) # Setting(key) /\ ProcessorsOf(name) # Setting(key)
           /\ Setting(key) \notin Above(ReceiversOf(name))
           /\ Setting(key) \notin Above(ProcessorsOf(name))
BY Distinct, AbovePipelines

\* The entries of two pipelines are apart.
LEMMA PipelinePaths ==
    ASSUME NEW name, NEW other
    PROVE  /\ ReceiversOf(name) # ProcessorsOf(other)
           /\ ProcessorsOf(name) = ProcessorsOf(other) => name = other
           /\ ProcessorsOf(name) \notin ToPipeline(other)
           /\ Len(ProcessorsOf(name)) = 4 /\ ProcessorsOf(name)[3] = name
BY DEF ReceiversOf, ProcessorsOf, ToPipeline

\* The path of a pipeline is not that of its processors.
LEMMA ShortPath ==
    ASSUME NEW path, NEW name, Len(path) = 3 /\ path[3] = name
    PROVE  \A n : path # ProcessorsOf(n)
BY DEF ProcessorsOf
-----------------------------------------------------------------------------
\* The processor that is put where there is none; all it has is below it.
LEMMA DefaultAt ==
    /\ IsMap(DefaultProcessor, Processors) /\ IsMap(DefaultProcessor, Processor)
    /\ DOMAIN DefaultProcessor \subseteq
          {Processors, Processor, Setting("timeout"), Setting("override"), Setting("system"),
           Attributes("system"), HostnameSources}
            \cup {Attribute("system", n) : n \in {"host.name", "host.id"}}
<1> DEFINE sys == System({"host.name", "host.id"})
           names == {Attribute("system", n) : n \in {"host.name", "host.id"}}
<1>1. DOMAIN sys \subseteq {Setting("system"), Attributes("system"), HostnameSources} \cup names
  <2>1. DOMAIN sys \subseteq DOMAIN Enabled("system", {"host.name", "host.id"})
                             \cup DOMAIN Leaf(HostnameSources, List(<<"os">>))
    BY OverlayAt DEF System
  <2>2. DOMAIN Enabled("system", {"host.name", "host.id"})
            = {Setting("system"), Attributes("system")} \cup names
    BY DEF Enabled
  <2> QED
    BY <2>1, <2>2 DEF Leaf
<1>2. \A p \in {Setting("system"), Attributes("system"), HostnameSources} \cup names :
          p # Processors /\ p # Processor
  BY DEF Processors, Processor, Setting, Attributes, HostnameSources, Attribute
<1>3. Stays(Processor, sys) /\ Stays(Processors, sys)
  BY <1>1, <1>2, AboveProcessors DEF Stays
<1>4. IsMap(Generated("5s"), Processors) /\ IsMap(Generated("5s"), Processor)
  BY DEF Generated, IsMap, Processors, Processor, Setting
<1> HIDE DEF sys
<1>5. IsMap(Overlay(Generated("5s"), sys), Processors) /\ IsMap(Overlay(Generated("5s"), sys), Processor)
  BY <1>1, <1>2, <1>3, <1>4, OverlayAt DEF IsMap
<1>6. DOMAIN Overlay(Generated("5s"), sys) \subseteq DOMAIN Generated("5s") \cup DOMAIN sys
  BY OverlayAt
<1>7. DOMAIN Generated("5s") = {Processors, Processor, Setting("timeout"), Setting("override")}
  BY DEF Generated
<1> QED
  BY <1>1, <1>5, <1>6, <1>7 DEF DefaultProcessor, sys

\* The two conditions on a configuration that the proofs use.
LEMMA ConfigPaths ==
    ASSUME NEW cfg, IsConfig(cfg), NEW p \in DOMAIN cfg
    PROVE  /\ \A q \in Above(p) : IsMap(cfg, q)
           /\ cfg[p].kind = "map" => IsMap(cfg, p)
BY DEF IsConfig, IsMap

\* With a processor put in, a configuration keeps all it had but what was no map
\* where the processor has to be.
LEMMA WithProcessorAt ==
    ASSUME NEW cfg, IsConfig(cfg)
    PROVE  /\ IsMap(WithProcessor(cfg), Processors) /\ IsMap(WithProcessor(cfg), Processor)
           /\ \A p \in DOMAIN cfg : p \in DOMAIN WithProcessor(cfg) /\
                 (WithProcessor(cfg)[p] = cfg[p] \/ (p \in {Processors, Processor} /\ ~IsMap(cfg, p)))
           /\ \A p \in DOMAIN WithProcessor(cfg) :
                  p \in DOMAIN cfg \/ p \in DOMAIN DefaultProcessor
<1>1. CASE IsMap(cfg, Processor)
  <2>1. Processors \in Above(Processor)
    BY AboveProcessors
  <2>2. IsMap(cfg, Processors)
    BY <1>1, <2>1, ConfigPaths DEF IsMap
  <2>3. WithProcessor(cfg) = cfg
    BY <1>1 DEF WithProcessor
  <2> QED
    BY <1>1, <2>2, <2>3 DEF IsMap
<1>2. CASE ~IsMap(cfg, Processor)
  <2> DEFINE o == Overlay(cfg, DefaultProcessor)
  <2>1. WithProcessor(cfg) = o
    BY <1>2 DEF WithProcessor
  <2>2. \A p \in DOMAIN DefaultProcessor : p \in {Processors, Processor} \/ Processor \in Above(p)
    BY DefaultAt, AboveProcessors
  <2>3. \A p \in DOMAIN cfg : p \in DOMAIN DefaultProcessor => p \in {Processors, Processor}
    BY <1>2, <2>2, ConfigPaths
  <2>4. ASSUME NEW p \in DOMAIN cfg PROVE Stays(p, DefaultProcessor)
    <3> SUFFICES ASSUME NEW q \in Above(p), q \in DOMAIN DefaultProcessor
                 PROVE  DefaultProcessor[q] = MapNode
      BY DEF Stays
    <3>1. q \in DOMAIN cfg
      BY ConfigPaths DEF IsMap
    <3> QED
      BY <2>3, <3>1, DefaultAt DEF IsMap
  <2>5. \A p \in DOMAIN cfg : p \in {Processors, Processor} => cfg[p] = MapNode \/ ~IsMap(cfg, p)
    BY DEF IsMap
  <2>6. \A p \in {Processors, Processor} :
            p \in DOMAIN DefaultProcessor /\ DefaultProcessor[p] = MapNode
    BY DefaultAt DEF IsMap
  <2>7. /\ DOMAIN o = {p \in DOMAIN cfg : Stays(p, DefaultProcessor)} \cup DOMAIN DefaultProcessor
        /\ \A p \in DOMAIN DefaultProcessor : o[p] = DefaultProcessor[p]
        /\ \A p \in DOMAIN cfg : p \notin DOMAIN DefaultProcessor /\ Stays(p, DefaultProcessor) => o[p] = cfg[p]
    BY OverlayAt
  <2> HIDE DEF o
  <2>8. DOMAIN o = DOMAIN cfg \cup DOMAIN DefaultProcessor
    BY <2>4, <2>7
  <2>9. IsMap(o, Processors) /\ IsMap(o, Processor)
    BY <2>6, <2>7, <2>8 DEF IsMap
  <2>10. \A p \in DOMAIN cfg : o[p] = cfg[p] \/ (p \in {Processors, Processor} /\ ~IsMap(cfg, p))
    <3> SUFFICES ASSUME NEW p \in DOMAIN cfg
                 PROVE  o[p] = cfg[p] \/ (p \in {Processors, Processor} /\ ~IsMap(cfg, p))
      OBVIOUS
    <3>1. CASE p \in DOMAIN DefaultProcessor
      BY <2>3, <2>5, <2>6, <2>7, <3>1
    <3>2. CASE p \notin DOMAIN DefaultProcessor
      BY <2>4, <2>7, <3>2
    <3> QED
      BY <3>1, <3>2
  <2> QED
    BY <2>1, <2>8, <2>9, <2>10
<1> QED
  BY <1>1, <1>2

\* A list is never joined with a map.
LEMMA ListIsNoMap ==
    ASSUME NEW items PROVE List(items) # MapNode
BY DEF List, MapNode, Node

\* The patch of the processor: its list of detectors is the recommended one.
LEMMA ProcessorPatched ==
    ASSUME NEW cfg, IsConfig(cfg), NEW e, NEW y, y = PatchProcessorDetectors(cfg, e)
    PROVE  /\ IsMap(y, Processors) /\ IsMap(y, Processor)
           /\ Setting("detectors") \in DOMAIN y
           /\ y[Setting("detectors")] = List(RecommendedDetectors(e))
           /\ \A p \in DOMAIN cfg :
                 \/ p \in DOMAIN y /\ y[p] = cfg[p]
                 \/ Setting("detectors") \in {p} \cup Above(p)
                 \/ p \in {Processors, Processor} /\ ~IsMap(cfg, p)
           /\ \A p \in {Processors, Processor} : p \in DOMAIN cfg => p \in DOMAIN y
           /\ \A p \in DOMAIN y :
                 p \in DOMAIN cfg \/ p \in DOMAIN DefaultProcessor \/ p = Setting("detectors")
<1> DEFINE w == WithProcessor(cfg)
           d == Detectors(e)
<1>1. /\ DOMAIN d = {Setting("detectors")}
      /\ d[Setting("detectors")] = List(RecommendedDetectors(e))
  BY DEF Detectors, Leaf
<1>2. List(RecommendedDetectors(e)) # MapNode
  BY ListIsNoMap
<1>3. /\ IsMap(w, Processors) /\ IsMap(w, Processor)
      /\ \A p \in DOMAIN cfg : p \in DOMAIN w /\
             (w[p] = cfg[p] \/ (p \in {Processors, Processor} /\ ~IsMap(cfg, p)))
      /\ \A p \in DOMAIN w : p \in DOMAIN cfg \/ p \in DOMAIN DefaultProcessor
  BY WithProcessorAt
<1>4. /\ DOMAIN y = {p \in DOMAIN w : Stays(p, d)} \cup DOMAIN d
      /\ \A p \in DOMAIN d : y[p] = d[p]
      /\ \A p \in DOMAIN w : p \notin DOMAIN d /\ Stays(p, d) => y[p] = w[p]
  <2>1. y = Overlay(w, d)
    BY DEF PatchProcessorDetectors
  <2> HIDE DEF w, d
  <2>2. /\ DOMAIN Overlay(w, d) = {p \in DOMAIN w : Stays(p, d)} \cup DOMAIN d
        /\ \A p \in DOMAIN d : Overlay(w, d)[p] = d[p]
        /\ \A p \in DOMAIN w : p \notin DOMAIN d /\ Stays(p, d) => Overlay(w, d)[p] = w[p]
    BY OverlayAt
  <2> QED
    BY <2>1, <2>2
<1>5. \A p : Stays(p, d) <=> Setting("detectors") \notin Above(p)
  BY <1>1, <1>2 DEF Stays
<1> HIDE DEF w, d
<1>6. \A p \in {Processors, Processor} : p # Setting("detectors") /\ Setting("detectors") \notin Above(p)
  BY AboveProcessors DEF Processors, Processor, Setting
<1>7. IsMap(y, Processors) /\ IsMap(y, Processor)
  BY <1>1, <1>3, <1>4, <1>5, <1>6 DEF IsMap
<1>8. Setting("detectors") \in DOMAIN y /\ y[Setting("detectors")] = List(RecommendedDetectors(e))
  BY <1>1, <1>4
<1>9. ASSUME NEW p \in DOMAIN cfg, Setting("detectors") \notin {p} \cup Above(p)
      PROVE  p \in DOMAIN y /\ y[p] = w[p]
  BY <1>1, <1>3, <1>4, <1>5, <1>9
<1>10. \A p \in DOMAIN y : p \in DOMAIN cfg \/ p \in DOMAIN DefaultProcessor \/ p
           = Setting("detectors")
  BY <1>1, <1>3, <1>4
<1> QED
  BY <1>3, <1>7, <1>8, <1>9, <1>10 DEF IsMap

\* The patch of the pipelines touches nothing but the processors of those that lack one.
LEMMA PipelinesPatched ==
    ASSUME NEW y, NEW f, f = EnsureProcessorInHostmetricsPipelines(y)
    PROVE  /\ \A n \in Lacking(y) :
                 /\ ProcessorsOf(n) \in DOMAIN f
                 /\ f[ProcessorsOf(n)] = List(<<ProcessorKey>> \o Items(y, ProcessorsOf(n)))
           /\ \A p \in DOMAIN y :
                 \/ p \in DOMAIN f /\ f[p] = y[p]
                 \/ \E n \in Lacking(y) : ProcessorsOf(n) \in {p} \cup Above(p)
           /\ \A p \in DOMAIN f : p \in DOMAIN y \/ \E n \in Lacking(y) : p = ProcessorsOf(n)
<1> DEFINE r == Prepended(y)
<1>1. /\ DOMAIN r = {ProcessorsOf(n) : n \in Lacking(y)}
      /\ \A p \in DOMAIN r : r[p] = List(<<ProcessorKey>> \o Items(y, p))
  BY DEF Prepended
<1>2. \A p \in DOMAIN r : r[p] # MapNode
  BY <1>1, ListIsNoMap
<1>3. /\ DOMAIN f = {p \in DOMAIN y : Stays(p, r)} \cup DOMAIN r
      /\ \A p \in DOMAIN r : f[p] = r[p]
      /\ \A p \in DOMAIN y : p \notin DOMAIN r /\ Stays(p, r) => f[p] = y[p]
  BY OverlayAt DEF EnsureProcessorInHostmetricsPipelines
<1> HIDE DEF r
<1>4. \A p : Stays(p, r) \/ \E q \in Above(p) : q \in DOMAIN r
  BY DEF Stays
<1> QED
  BY <1>1, <1>3, <1>4

\* What is read of a list is a sequence of strings.
LEMMA ItemsType ==
    ASSUME NEW cfg, IsConfig(cfg), NEW path
    PROVE  Items(cfg, path) \in Seq(STRING)
<1>1. ASSUME path \in DOMAIN cfg PROVE cfg[path].items \in Seq(STRING)
  BY <1>1 DEF IsConfig, Nodes
<1>2. <<>> \in Seq(STRING)
  OBVIOUS
<1> QED
  BY <1>1, <1>2 DEF Items

\* A list is read as it was put.
LEMMA ItemsOfList ==
    ASSUME NEW cfg, NEW path \in DOMAIN cfg, NEW items, cfg[path] = List(items)
    PROVE  Items(cfg, path) = items
BY DEF Items, List, Node

\* What is put in front is in the list.
LEMMA Prepend ==
    ASSUME NEW items \in Seq(STRING), NEW k
    PROVE  Contains(<<k>> \o items, k) /\ <<k>> \o items # <<>>
<1>1. items \in Seq({k} \cup STRING) /\ <<k>> \in Seq({k} \cup STRING)
  OBVIOUS
<1>2. Len(<<k>> \o items) = 1 + Len(items) /\ (<<k>> \o items)[1] = k
  BY <1>1
<1>3. 1 \in 1 .. Len(<<k>> \o items)
  BY <1>2
<1> QED
  BY <1>2, <1>3 DEF Contains

\* A path through the processors of a pipeline names the pipeline.
LEMMA PipelineOf ==
    ASSUME NEW path \in Seq(STRING), NEW name, ProcessorsOf(name) \in {path} \cup Above(path)
    PROVE  Len(path) >= 4 /\ path[3] = name
<1>1. CASE path = ProcessorsOf(name)
  BY <1>1 DEF ProcessorsOf
<1>2. CASE ProcessorsOf(name) \in Above(path)
  BY <1>2 DEF ProcessorsOf, Above
<1> QED
  BY <1>1, <1>2

\* The patch of the pipelines leaves the processor as its own patch made it.
LEMMA PatchedProcessor ==
    ASSUME NEW cfg, IsConfig(cfg), NEW e, NEW f, f = PatchCollectorConfig(cfg, e)
    PROVE  /\ IsMap(f, Processors) /\ IsMap(f, Processor)
           /\ Setting("detectors") \in DOMAIN f
           /\ f[Setting("detectors")] = List(RecommendedDetectors(e))
<1> DEFINE y == PatchProcessorDetectors(cfg, e)
<1>1. /\ IsMap(y, Processors) /\ IsMap(y, Processor)
      /\ Setting("detectors") \in DOMAIN y
      /\ y[Setting("detectors")] = List(RecommendedDetectors(e))
  BY ProcessorPatched
<1>2. \A p \in DOMAIN y : \/ p \in DOMAIN f /\ f[p] = y[p]
                          \/ \E n \in Lacking(y) : ProcessorsOf(n) \in {p} \cup Above(p)
  BY PipelinesPatched DEF PatchCollectorConfig
<1> HIDE DEF y
<1>3. \A p \in {Processors, Processor, Setting("detectors")} :
          \A n : ProcessorsOf(n) \notin {p} \cup Above(p)
  BY AboveProcessors, Distinct
<1> QED
  BY <1>1, <1>2, <1>3 DEF IsMap

\* A patch changes nothing but what it is for.
LEMMA PatchKeeps ==
    ASSUME NEW cfg, IsConfig(cfg), NEW e, NEW f, f = PatchCollectorConfig(cfg, e),
           NEW path \in DOMAIN cfg
    PROVE  \/ path \in DOMAIN f /\ f[path] = cfg[path]
           \/ MayDiffer(path, cfg, f)
<1> DEFINE y == PatchProcessorDetectors(cfg, e)
<1>1. \A p \in DOMAIN cfg : \/ p \in DOMAIN y /\ y[p] = cfg[p]
                            \/ Setting("detectors") \in {p} \cup Above(p)
                            \/ p \in {Processors, Processor} /\ ~IsMap(cfg, p)
  BY ProcessorPatched
<1>2. /\ \A n \in Lacking(y) :
             /\ ProcessorsOf(n) \in DOMAIN f
             /\ f[ProcessorsOf(n)] = List(<<ProcessorKey>> \o Items(y, ProcessorsOf(n)))
      /\ \A p \in DOMAIN y : \/ p \in DOMAIN f /\ f[p] = y[p]
                             \/ \E n \in Lacking(y) : ProcessorsOf(n) \in {p} \cup Above(p)
  BY PipelinesPatched DEF PatchCollectorConfig
<1> HIDE DEF y
<1>3. ASSUME NEW n \in Lacking(y), ProcessorsOf(n) \in {path} \cup Above(path)
      PROVE  MayDiffer(path, cfg, f)
  <2>1. path \in Seq(STRING)
    BY DEF IsConfig
  <2>2. Len(path) >= 4 /\ path[3] = n
    BY <1>3, <2>1, PipelineOf
  <2>3. ProcessorsOf(n) \in DOMAIN cfg
    BY <1>3, ConfigPaths DEF IsMap
  <2>4. /\ Setting("detectors") \notin {ProcessorsOf(n)} \cup Above(ProcessorsOf(n))
        /\ ProcessorsOf(n) \notin {Processors, Processor}
    BY AbovePipelines, Distinct
  <2>5. Items(y, ProcessorsOf(n)) = Items(cfg, ProcessorsOf(n))
    BY <1>1, <2>3, <2>4 DEF Items
  <2>6. Items(f, ProcessorsOf(n)) = <<ProcessorKey>> \o Items(cfg, ProcessorsOf(n))
    BY <1>2, <2>5, ItemsOfList
  <2> QED
    BY <1>3, <2>2, <2>6 DEF MayDiffer
<1>4. CASE path \in DOMAIN y /\ y[path] = cfg[path]
  BY <1>2, <1>3, <1>4
<1>5. CASE Setting("detectors") \in {path} \cup Above(path)
  BY <1>5 DEF MayDiffer
<1>6. CASE path \in {Processors, Processor} /\ ~IsMap(cfg, path)
  BY <1>6 DEF MayDiffer
<1> QED
  BY <1>1, <1>4, <1>5, <1>6
-----------------------------------------------------------------------------
\* Nothing of the file is lost in the merge, and the generated block stays where
\* the file has maps only.
LEMMA Merged ==
    ASSUME NEW f, NEW e, NEW cfg, cfg = EnrichCollectorConfig(f, e)
    PROVE  /\ \A p \in DOMAIN f : p \in DOMAIN cfg /\ cfg[p] = f[p]
           /\ \A p \in DOMAIN GenerateResourceDetectionBlock(e) :
                 Stays(p, f) /\ p \notin DOMAIN f =>
                     p \in DOMAIN cfg /\ cfg[p] = GenerateResourceDetectionBlock(e)[p]
<1>1. cfg = Overlay(GenerateResourceDetectionBlock(e), f)
  BY DEF EnrichCollectorConfig, DeepMergeMap
<1>2. /\ DOMAIN Overlay(GenerateResourceDetectionBlock(e), f)
           = {p \in DOMAIN GenerateResourceDetectionBlock(e) : Stays(p, f)} \cup DOMAIN f
      /\ \A p \in DOMAIN f : Overlay(GenerateResourceDetectionBlock(e), f)[p] = f[p]
      /\ \A p \in DOMAIN GenerateResourceDetectionBlock(e) : p \notin DOMAIN f /\ Stays(p, f)
           => Overlay(GenerateResourceDetectionBlock(e), f)[p]
               = GenerateResourceDetectionBlock(e)[p]
  BY OverlayAt
<1> QED
  BY <1>1, <1>2

\* What may differ after the patch may differ after the merge.
LEMMA MayStillDiffer ==
    ASSUME NEW from, IsConfig(from), NEW f, NEW cfg,
           \A p \in DOMAIN f : p \in DOMAIN cfg /\ cfg[p] = f[p],
           NEW path, MayDiffer(path, from, f)
    PROVE  MayDiffer(path, from, cfg)
<1> DEFINE q == ProcessorsOf(path[3])
<1>1. ASSUME Items(f, q) = <<ProcessorKey>> \o Items(from, q)
      PROVE  Items(cfg, q) = Items(f, q)
  <2>1. Items(f, q) # <<>>
    BY <1>1, ItemsType, Prepend
  <2>2. q \in DOMAIN f
    BY <2>1 DEF Items
  <2> QED
    BY <2>2 DEF Items
<1> QED
  BY <1>1 DEF MayDiffer
-----------------------------------------------------------------------------
\* A concatenation has the members of both sequences.
LEMMA Concatenated ==
    ASSUME NEW S, NEW s \in Seq(S), NEW t \in Seq(S)
    PROVE  s \o t \in Seq(S) /\ ToSet(s \o t) = ToSet(s) \cup ToSet(t)
<1>1. s \o t \in Seq(S)
  OBVIOUS
<1>2. ASSUME NEW i \in DOMAIN (s \o t) PROVE (s \o t)[i] \in ToSet(s) \cup ToSet(t)
  <2>1. CASE i <= Len(s)
    BY <2>1 DEF ToSet
  <2>2. CASE i > Len(s)
     <3>1. i - Len(s) \in 1 .. Len(t) /\ (s \o t)[i] = t[i - Len(s)]
       BY <2>2
     <3> QED
       BY <3>1 DEF ToSet
  <2> QED
    BY <2>1, <2>2
<1>3. ASSUME NEW i \in DOMAIN s PROVE i \in DOMAIN (s \o t) /\ (s \o t)[i] = s[i]
  OBVIOUS
<1>4. ASSUME NEW i \in DOMAIN t PROVE i + Len(s) \in DOMAIN (s \o t) /\ (s \o t)[i + Len(s)] = t[i]
  OBVIOUS
<1>5. ToSet(s \o t) \subseteq ToSet(s) \cup ToSet(t)
  BY <1>2 DEF ToSet
<1>6. ToSet(s) \subseteq ToSet(s \o t)
  <2> SUFFICES ASSUME NEW i \in DOMAIN s PROVE s[i] \in ToSet(s \o t)
    BY DEF ToSet
  <2> QED
    BY <1>3 DEF ToSet
<1>7. ToSet(t) \subseteq ToSet(s \o t)
  <2> SUFFICES ASSUME NEW i \in DOMAIN t PROVE t[i] \in ToSet(s \o t)
    BY DEF ToSet
  <2> QED
    BY <1>4 DEF ToSet
<1> QED
  BY <1>1, <1>5, <1>6, <1>7

\* Every name that a list of detectors may have.
Names == {"env", "system", "ec2", "eks", "ecs", "lambda", "elastic_beanstalk", "gcp", "azure",
          "aks", "k8snode", "oraclecloud", "digitalocean", "vultr", "alibaba_ecs", "kubeadm",
          "docker", "consul", "openshift"}

\* Whatever the platform: a listed detector has settings if and only if it can have any.
Matched(list, blocks) ==
  /\ list \in Seq(Names) /\ blocks \subseteq ToSet(list)
  /\ ToSet(list) \cap Configurable \subseteq blocks

\* The tables of types.go and of config_enricher.go agree on every platform, case by
\* case.
LEMMA PlatformTables ==
    ASSUME NEW e \in CloudEnvironments
    PROVE  Matched(PlatformDetectors(e), Blocks(e))
<1>1. PICK platform \in Platforms : e.provider = platform[1] /\ e.compute = platform[2]
  BY DEF CloudEnvironments
<1>2. CASE e.provider = "aws" /\ e.compute = "ec2"
  <2>1. PlatformDetectors(e) = <<"ec2">> /\ Blocks(e) = {"ec2"}
    BY <1>2 DEF PlatformDetectors, AWSDetectors, Blocks
  <2>2. Matched(<<"ec2">>, {"ec2"})
    BY DEF Matched, Names, Configurable, ToSet
  <2> QED
    BY <2>1, <2>2
<1>3. CASE e.provider = "aws" /\ e.compute = "eks"
  <2>1. PlatformDetectors(e) = <<"ec2", "eks", "k8snode">> /\ Blocks(e)
            = {"ec2", "eks", "k8snode"}
    BY <1>3 DEF PlatformDetectors, AWSDetectors, Blocks
  <2>2. Matched(<<"ec2", "eks", "k8snode">>, {"ec2", "eks", "k8snode"})
    BY DEF Matched, Names, Configurable, ToSet
  <2> QED
    BY <2>1, <2>2
<1>4. CASE e.provider = "aws" /\ e.compute \in {"ecs", "fargate"}
  <2>1. PlatformDetectors(e) = <<"ecs">> /\ Blocks(e) = {"ecs"}
    BY <1>4 DEF PlatformDetectors, AWSDetectors, Blocks
  <2>2. Matched(<<"ecs">>, {"ecs"})
    BY DEF Matched, Names, Configurable, ToSet
  <2> QED
    BY <2>1, <2>2
<1>5. CASE e.provider = "aws" /\ e.compute = "lambda"
  <2>1. PlatformDetectors(e) = <<"lambda">> /\ Blocks(e) = {"lambda"}
    BY <1>5 DEF PlatformDetectors, AWSDetectors, Blocks
  <2>2. Matched(<<"lambda">>, {"lambda"})
    BY DEF Matched, Names, Configurable, ToSet
  <2> QED
    BY <2>1, <2>2
<1>6. CASE e.provider = "aws" /\ e.compute = "elastic_beanstalk"
  <2>1. PlatformDetectors(e) = <<"ec2", "elastic_beanstalk">> /\ Blocks(e) = {"ec2"}
    BY <1>6 DEF PlatformDetectors, AWSDetectors, Blocks
  <2>2. Matched(<<"ec2", "elastic_beanstalk">>, {"ec2"})
    BY DEF Matched, Names, Configurable, ToSet
  <2> QED
    BY <2>1, <2>2
<1>7. CASE e.provider = "gcp" /\ e.compute = "gke"
  <2>1. PlatformDetectors(e) = <<"gcp", "k8snode">> /\ Blocks(e) = {"gcp", "k8snode"}
    BY <1>7 DEF PlatformDetectors, AWSDetectors, Blocks
  <2>2. Matched(<<"gcp", "k8snode">>, {"gcp", "k8snode"})
    BY DEF Matched, Names, Configurable, ToSet
  <2> QED
    BY <2>1, <2>2
<1>8. CASE e.provider = "azure" /\ e.compute = "aks"
  <2>1. PlatformDetectors(e) = <<"azure", "aks", "k8snode">> /\ Blocks(e) = {"azure", "k8snode"}
    BY <1>8 DEF PlatformDetectors, AWSDetectors, Blocks
  <2>2. Matched(<<"azure", "aks", "k8snode">>, {"azure", "k8snode"})
    BY DEF Matched, Names, Configurable, ToSet
  <2> QED
    BY <2>1, <2>2
<1>9. CASE e.provider = "azure" /\ e.compute = "azure_vm"
  <2>1. PlatformDetectors(e) = <<"azure">> /\ Blocks(e) = {"azure"}
    BY <1>9 DEF PlatformDetectors, AWSDetectors, Blocks
  <2>2. Matched(<<"azure">>, {"azure"})
    BY DEF Matched, Names, Configurable, ToSet
  <2> QED
    BY <2>1, <2>2
<1>10. CASE e.provider = "oci" /\ e.compute = "oci"
  <2>1. PlatformDetectors(e) = <<"oraclecloud">> /\ Blocks(e) = {}
    BY <1>10 DEF PlatformDetectors, AWSDetectors, Blocks
  <2>2. Matched(<<"oraclecloud">>, {})
    BY DEF Matched, Names, Configurable, ToSet
  <2> QED
    BY <2>1, <2>2
<1>11. CASE e.provider = "digitalocean" /\ e.compute = "digitalocean"
  <2>1. PlatformDetectors(e) = <<"digitalocean">> /\ Blocks(e) = {}
    BY <1>11 DEF PlatformDetectors, AWSDetectors, Blocks
  <2>2. Matched(<<"digitalocean">>, {})
    BY DEF Matched, Names, Configurable, ToSet
  <2> QED
    BY <2>1, <2>2
<1>12. CASE e.provider = "vultr" /\ e.compute = "vultr"
  <2>1. PlatformDetectors(e) = <<"vultr">> /\ Blocks(e) = {}
    BY <1>12 DEF PlatformDetectors, AWSDetectors, Blocks
  <2>2. Matched(<<"vultr">>, {})
    BY DEF Matched, Names, Configurable, ToSet
  <2> QED
    BY <2>1, <2>2
<1>13. CASE e.provider = "alibaba_cloud" /\ e.compute = "alibaba_ecs"
  <2>1. PlatformDetectors(e) = <<"alibaba_ecs">> /\ Blocks(e) = {}
    BY <1>13 DEF PlatformDetectors, AWSDetectors, Blocks
  <2>2. Matched(<<"alibaba_ecs">>, {})
    BY DEF Matched, Names, Configurable, ToSet
  <2> QED
    BY <2>1, <2>2
<1>14. CASE e.provider = "on-prem" /\ e.compute = "kubernetes"
  <2>1. PlatformDetectors(e) = <<"k8snode", "kubeadm">> /\ Blocks(e) = {"k8snode"}
    BY <1>14 DEF PlatformDetectors, AWSDetectors, Blocks
  <2>2. Matched(<<"k8snode", "kubeadm">>, {"k8snode"})
    BY DEF Matched, Names, Configurable, ToSet
  <2> QED
    BY <2>1, <2>2
<1>15. CASE e.provider = "on-prem" /\ e.compute = "bare_metal"
  <2>1. PlatformDetectors(e) = <<>> /\ Blocks(e) = {}
    BY <1>15 DEF PlatformDetectors, AWSDetectors, Blocks
  <2>2. Matched(<<>>, {})
    BY DEF Matched, Names, Configurable, ToSet
  <2> QED
    BY <2>1, <2>2
<1>16. CASE e.provider = "gcp" /\ e.compute \in {"gce", "cloud_run", "cloud_functions", "app_engine"}
  <2>1. PlatformDetectors(e) = <<"gcp">> /\ Blocks(e) = {"gcp"}
    BY <1>16 DEF PlatformDetectors, AWSDetectors, Blocks
  <2>2. Matched(<<"gcp">>, {"gcp"})
    BY DEF Matched, Names, Configurable, ToSet
  <2> QED
    BY <2>1, <2>2
<1> QED
  BY <1>1, <1>2, <1>3, <1>4, <1>5, <1>6, <1>7, <1>8, <1>9, <1>10, <1>11, <1>12, <1>13, <1>14,
     <1>15, <1>16 DEF Platforms

\* They agree in every environment: the flags add nothing that could be configured.
LEMMA DetectorTables ==
    ASSUME NEW e \in CloudEnvironments
    PROVE  /\ Blocks(e) \subseteq ToSet(RecommendedDetectors(e))
           /\ ToSet(RecommendedDetectors(e)) \cap Configurable \subseteq Blocks(e) \cup {"system"}
<1> DEFINE Flag(f) == IF f \in e.flags THEN <<f>> ELSE <<>>
           s0 == <<"env", "system">>
           s1 == s0 \o PlatformDetectors(e)
           s2 == s1 \o Flag("docker")
           s3 == s2 \o Flag("consul")
           s4 == s3 \o Flag("openshift")
<1>1. RecommendedDetectors(e) = s4
  BY DEF RecommendedDetectors
<1>2. Matched(PlatformDetectors(e), Blocks(e))
  BY PlatformTables
<1>3. s0 \in Seq(Names) /\ ToSet(s0) = {"env", "system"}
  BY DEF Names, ToSet
<1>4. ASSUME NEW f \in {"docker", "consul", "openshift"}
      PROVE  Flag(f) \in Seq(Names) /\ ToSet(Flag(f)) \subseteq {f}
  <2>1. f \in Names
    BY DEF Names
  <2>2. <<f>> \in Seq(Names) /\ ToSet(<<f>>) = {f}
    BY <2>1 DEF ToSet
  <2>3. <<>> \in Seq(Names) /\ ToSet(<<>>) = {}
    BY DEF ToSet
  <2> QED
    BY <2>2, <2>3
<1> HIDE DEF s0, Flag
<1>5. s1 \in Seq(Names) /\ ToSet(s1) = ToSet(s0) \cup ToSet(PlatformDetectors(e))
  BY <1>2, <1>3, Concatenated DEF Matched
<1> HIDE DEF s1
<1>6. s2 \in Seq(Names) /\ ToSet(s2) = ToSet(s1) \cup ToSet(Flag("docker"))
  BY <1>4, <1>5, Concatenated
<1> HIDE DEF s2
<1>7. s3 \in Seq(Names) /\ ToSet(s3) = ToSet(s2) \cup ToSet(Flag("consul"))
  BY <1>4, <1>6, Concatenated
<1> HIDE DEF s3
<1>8. ToSet(s4) = ToSet(s3) \cup ToSet(Flag("openshift"))
  BY <1>4, <1>7, Concatenated
<1> HIDE DEF s4
<1>9. {"docker", "consul", "openshift", "env"} \cap Configurable = {}
  BY DEF Configurable
<1> QED
  BY <1>1, <1>2, <1>3, <1>4, <1>5, <1>6, <1>7, <1>8, <1>9 DEF Matched

\* Where the generated block has settings.
LEMMA GeneratedSettings ==
    ASSUME NEW e
    PROVE  /\ Setting("system") \in DOMAIN GenerateResourceDetectionBlock(e)
           /\ \A d \in Blocks(e) : Setting(d) \in DOMAIN GenerateResourceDetectionBlock(e)
           /\ "k8snode" \in Blocks(e) =>
                 /\ NodeName \in DOMAIN GenerateResourceDetectionBlock(e)
                 /\ GenerateResourceDetectionBlock(e)[NodeName] = Scalar("KM_NODE_NAME")
<1> DEFINE names == {"host.name", "host.id", "os.type"}
           sys == System(names)
           ds == DetectorSettings(e)
           g1 == Overlay(Generated(PickTimeout(e)), sys)
           g2 == Overlay(ds, Detectors(e))
           g == Overlay(g1, g2)
<1>1. GenerateResourceDetectionBlock(e) = g
  BY DEF GenerateResourceDetectionBlock
<1>2. Setting("system") \in DOMAIN sys
  <2>1. Setting("system") \in DOMAIN Enabled("system", names)
    BY DEF Enabled
  <2>2. HostnameSources \notin Above(Setting("system"))
    BY AboveProcessors DEF HostnameSources, Processors, Processor
  <2>3. Stays(Setting("system"), Leaf(HostnameSources, List(<<"os">>)))
    BY <2>2 DEF Stays, Leaf
  <2> QED
    BY <2>1, <2>3, OverlayAt DEF System
<1>3. /\ \A d \in Blocks(e) : Setting(d) \in DOMAIN ds
      /\ "k8snode" \in Blocks(e) => NodeName \in DOMAIN ds /\ ds[NodeName]
             = Scalar("KM_NODE_NAME")
      /\ Processors \notin DOMAIN ds /\ Processor \notin DOMAIN ds
  <2>1. DOMAIN ds = {Setting(d) : d \in Blocks(e)} \cup {Attributes(d) : d \in Blocks(e)}
                      \cup {Attribute(d, "cloud.provider") : d \in Blocks(e)}
                      \cup {NodeName : d \in Blocks(e) \cap {"k8snode"}}
    BY DEF DetectorSettings
  <2>2. \A d : Processors \notin {Setting(d), Attributes(d), Attribute(d, "cloud.provider"), NodeName}
    BY DEF Processors, Setting, Attributes, Attribute, NodeName
  <2>3. \A d : Processor \notin {Setting(d), Attributes(d), Attribute(d, "cloud.provider"), NodeName}
    BY DEF Processor, Setting, Attributes, Attribute, NodeName
  <2>4. "k8snode" \in Blocks(e) => NodeName \in DOMAIN ds
    BY <2>1
  <2>5. Len(NodeName) # 5
    BY DEF NodeName
  <2>6. NodeName \in DOMAIN ds => ds[NodeName] = Scalar("KM_NODE_NAME")
    BY <2>5 DEF DetectorSettings
  <2> QED
    BY <2>1, <2>2, <2>3, <2>4, <2>6
<1>4. DOMAIN Detectors(e) = {Setting("detectors")}
  BY DEF Detectors, Leaf
<1>5. /\ \A d : Above(Setting(d)) = {Processors, Processor}
      /\ Above(NodeName) = {Processors, Processor, Setting("k8snode")}
      /\ NodeName # Setting("detectors") /\ Setting("k8snode") # Setting("detectors")
      /\ Processors # Setting("detectors") /\ Processor # Setting("detectors")
  BY AboveProcessors DEF NodeName, Setting, Processors, Processor
<1> HIDE DEF sys, ds
<1>6. /\ DOMAIN g2 = {p \in DOMAIN ds : Stays(p, Detectors(e))} \cup {Setting("detectors")}
      /\ \A p \in DOMAIN ds : p # Setting("detectors") /\ Stays(p, Detectors(e)) => g2[p] = ds[p]
  BY <1>4, OverlayAt
<1>7. Stays(NodeName, Detectors(e)) /\ \A d : Stays(Setting(d), Detectors(e))
  BY <1>4, <1>5 DEF Stays
<1>8. Setting("system") \in DOMAIN g1
  BY <1>2, OverlayAt
<1> HIDE DEF g1, g2
<1>9. DOMAIN g = {p \in DOMAIN g1 : Stays(p, g2)} \cup DOMAIN g2 /\ \A p \in DOMAIN g2 :
          g[p] = g2[p]
  BY OverlayAt
<1>10. Stays(Setting("system"), g2)
  BY <1>3, <1>5, <1>6 DEF Stays
<1> HIDE DEF g
<1> QED
  BY <1>1, <1>3, <1>5, <1>6, <1>7, <1>8, <1>9, <1>10
-----------------------------------------------------------------------------
\* Two functions are the same if they are at every path.
LEMMA OverlayIsFunction ==
    ASSUME NEW base, NEW nodes, NEW f, f = [p \in DOMAIN f |-> f[p]],
           DOMAIN f = DOMAIN Overlay(base, nodes),
           \A p \in DOMAIN f : f[p] = Overlay(base, nodes)[p]
    PROVE  f = Overlay(base, nodes)
BY DEF Overlay

\* Overlays of the same paths with what is no map: the second one counts.
LEMMA OverlaySame ==
    ASSUME NEW a, NEW f, NEW g, DOMAIN f = DOMAIN g,
           \A p \in DOMAIN f : f[p] # MapNode /\ g[p] # MapNode
    PROVE  Overlay(Overlay(a, f), g) = Overlay(a, g)
<1> DEFINE af == Overlay(a, f)
           ag == Overlay(a, g)
           afg == Overlay(af, g)
<1>1. \A p : Stays(p, f) <=> Stays(p, g)
  BY DEF Stays
<1>2. /\ DOMAIN af = {p \in DOMAIN a : Stays(p, f)} \cup DOMAIN f
      /\ \A p \in DOMAIN a : p \notin DOMAIN f /\ Stays(p, f) => af[p] = a[p]
  BY OverlayAt
<1>3. /\ DOMAIN ag = {p \in DOMAIN a : Stays(p, g)} \cup DOMAIN g
      /\ \A p \in DOMAIN g : ag[p] = g[p]
      /\ \A p \in DOMAIN a : p \notin DOMAIN g /\ Stays(p, g) => ag[p] = a[p]
  BY OverlayAt
<1> HIDE DEF af
<1>4. /\ DOMAIN afg = {p \in DOMAIN af : Stays(p, g)} \cup DOMAIN g
      /\ \A p \in DOMAIN g : afg[p] = g[p]
      /\ \A p \in DOMAIN af : p \notin DOMAIN g /\ Stays(p, g) => afg[p] = af[p]
  BY OverlayAt
<1>5. afg = [p \in DOMAIN afg |-> afg[p]]
  BY DEF Overlay
<1> HIDE DEF ag, afg
<1>6. DOMAIN afg = DOMAIN ag
  BY <1>1, <1>2, <1>3, <1>4
<1>7. ASSUME NEW p \in DOMAIN afg PROVE afg[p] = ag[p]
   BY <1>1, <1>2, <1>3, <1>4
<1> QED
  BY <1>5, <1>6, <1>7, OverlayIsFunction DEF af, ag, afg

\* Overlays that have nothing to do with each other can be swapped.
LEMMA OverlaySwap ==
    ASSUME NEW a, NEW f, NEW g, DOMAIN f \cap DOMAIN g = {},
           \A p \in DOMAIN f : Stays(p, g), \A p \in DOMAIN g : Stays(p, f)
    PROVE  Overlay(Overlay(a, f), g) = Overlay(Overlay(a, g), f)
<1> DEFINE af == Overlay(a, f)
           ag == Overlay(a, g)
           afg == Overlay(af, g)
           agf == Overlay(ag, f)
<1>2. /\ DOMAIN af = {p \in DOMAIN a : Stays(p, f)} \cup DOMAIN f
      /\ \A p \in DOMAIN f : af[p] = f[p]
      /\ \A p \in DOMAIN a : p \notin DOMAIN f /\ Stays(p, f) => af[p] = a[p]
  BY OverlayAt
<1>3. /\ DOMAIN ag = {p \in DOMAIN a : Stays(p, g)} \cup DOMAIN g
      /\ \A p \in DOMAIN g : ag[p] = g[p]
      /\ \A p \in DOMAIN a : p \notin DOMAIN g /\ Stays(p, g) => ag[p] = a[p]
  BY OverlayAt
<1> HIDE DEF af, ag
<1>4. /\ DOMAIN afg = {p \in DOMAIN af : Stays(p, g)} \cup DOMAIN g
      /\ \A p \in DOMAIN g : afg[p] = g[p]
      /\ \A p \in DOMAIN af : p \notin DOMAIN g /\ Stays(p, g) => afg[p] = af[p]
  BY OverlayAt
<1>5. /\ DOMAIN agf = {p \in DOMAIN ag : Stays(p, f)} \cup DOMAIN f
      /\ \A p \in DOMAIN f : agf[p] = f[p]
      /\ \A p \in DOMAIN ag : p \notin DOMAIN f /\ Stays(p, f) => agf[p] = ag[p]
  BY OverlayAt
<1>6. afg = [p \in DOMAIN afg |-> afg[p]]
  BY DEF Overlay
<1> HIDE DEF afg, agf
<1>7. DOMAIN afg = DOMAIN agf
  BY <1>2, <1>3, <1>4, <1>5
<1>8. ASSUME NEW p \in DOMAIN afg PROVE afg[p] = agf[p]
   BY <1>2, <1>3, <1>4, <1>5, <1>7
<1> QED
  BY <1>6, <1>7, <1>8, OverlayIsFunction DEF af, ag, afg, agf

\* An overlay without nodes changes nothing.
LEMMA OverlayNothing ==
    ASSUME NEW a, NEW nodes, a = [p \in DOMAIN a |-> a[p]], DOMAIN nodes = {}
    PROVE  Overlay(a, nodes) = a
<1>1. \A p : Stays(p, nodes)
  BY DEF Stays
<1> DEFINE o == Overlay(a, nodes)
<1>2. /\ DOMAIN o = {p \in DOMAIN a : Stays(p, nodes)} \cup DOMAIN nodes
      /\ \A p \in DOMAIN a : p \notin DOMAIN nodes /\ Stays(p, nodes) => o[p] = a[p]
  BY OverlayAt
<1> HIDE DEF o
<1>3. DOMAIN o = DOMAIN a /\ \A p \in DOMAIN a : o[p] = a[p]
  BY <1>1, <1>2
<1> QED
  BY <1>3, OverlayIsFunction DEF o

\* A second look at the pipelines finds none that lacks the processor.
LEMMA NoneLacking ==
    ASSUME NEW y, NEW z, z = EnsureProcessorInHostmetricsPipelines(y),
           \A n : Items(y, ProcessorsOf(n)) \in Seq(STRING)
    PROVE  Lacking(z) = {}
<1>1. /\ \A n \in Lacking(y) :
            /\ ProcessorsOf(n) \in DOMAIN z
            /\ z[ProcessorsOf(n)] = List(<<ProcessorKey>> \o Items(y, ProcessorsOf(n)))
      /\ \A p \in DOMAIN y : \/ p \in DOMAIN z /\ z[p] = y[p]
                             \/ \E n \in Lacking(y) : ProcessorsOf(n) \in {p} \cup Above(p)
      /\ \A p \in DOMAIN z : p \in DOMAIN y \/ \E n \in Lacking(y) : p = ProcessorsOf(n)
  BY PipelinesPatched
<1>2. SUFFICES ASSUME NEW n \in Lacking(z) PROVE FALSE
  OBVIOUS
<1>3. /\ Contains(Items(z, ReceiversOf(n)), "hostmetrics")
      /\ ~Contains(Items(z, ProcessorsOf(n)), ProcessorKey)
      /\ \E p \in DOMAIN z : Len(p) = 3 /\ p[3] = n
  BY <1>2 DEF Lacking
<1>4. n \notin Lacking(y)
  <2> SUFFICES ASSUME n \in Lacking(y) PROVE FALSE
    OBVIOUS
  <2>1. Items(z, ProcessorsOf(n)) = <<ProcessorKey>> \o Items(y, ProcessorsOf(n))
    BY <1>1, ItemsOfList
  <2> QED
    BY <1>3, <2>1, Prepend
<1>5. \E p \in DOMAIN y : Len(p) = 3 /\ p[3] = n
  <2>1. PICK p \in DOMAIN z : Len(p) = 3 /\ p[3] = n
    BY <1>3
  <2>2. \A m : p # ProcessorsOf(m)
    BY <2>1, ShortPath
  <2> QED
    BY <1>1, <2>1, <2>2
<1>6. \A m \in Lacking(y), p \in {ReceiversOf(n), ProcessorsOf(n)} :
          ProcessorsOf(m) \notin {p} \cup Above(p)
  BY <1>4, AbovePipelines, PipelinePaths
<1>7. \A p \in {ReceiversOf(n), ProcessorsOf(n)} : Items(z, p) = Items(y, p)
  <2>1. \A p \in {ReceiversOf(n), ProcessorsOf(n)} : p \in DOMAIN z => p \in DOMAIN y
    BY <1>1, <1>4, PipelinePaths
  <2> QED
    BY <1>1, <1>6, <2>1 DEF Items
<1> QED
  BY <1>3, <1>4, <1>5, <1>7 DEF Lacking

\* Patching a configuration that was patched, for this or another environment, is
\* patching it once: "The function is idempotent and safe to call on
\* already-patched configs" (configpatch.go:14).
THEOREM PatchAbsorbs ==
    ASSUME NEW cfg, IsConfig(cfg), NEW d, NEW e
    PROVE  PatchCollectorConfig(PatchCollectorConfig(cfg, d), e) = PatchCollectorConfig(cfg, e)
<1> DEFINE w == WithProcessor(cfg)
           yd == PatchProcessorDetectors(cfg, d)
           ye == PatchProcessorDetectors(cfg, e)
           x == PatchCollectorConfig(cfg, d)
           z == PatchCollectorConfig(cfg, e)
<1>1. yd = Overlay(w, Detectors(d)) /\ ye = Overlay(w, Detectors(e))
  BY DEF PatchProcessorDetectors
<1>2. x = Overlay(yd, Prepended(yd)) /\ z = Overlay(ye, Prepended(ye))
  BY DEF PatchCollectorConfig, EnsureProcessorInHostmetricsPipelines
<1>3. IsMap(x, Processor)
  BY PatchedProcessor
<1>4. PatchProcessorDetectors(x, e) = Overlay(x, Detectors(e))
  BY <1>3 DEF PatchProcessorDetectors, WithProcessor
<1>5. /\ DOMAIN Detectors(d) = {Setting("detectors")} /\ DOMAIN Detectors(e)
             = {Setting("detectors")}
      /\ Detectors(d)[Setting("detectors")] # MapNode /\ Detectors(e)[Setting("detectors")] # MapNode
  BY ListIsNoMap DEF Detectors, Leaf
\* The two environments' patches differ in the list of detectors only.
<1>6. Overlay(yd, Detectors(e)) = ye
  BY <1>1, <1>5, OverlaySame
<1>7. Prepended(yd) = Prepended(ye)
  <2>1. /\ DOMAIN yd = DOMAIN ye
        /\ \A p \in DOMAIN yd : p # Setting("detectors") => yd[p] = ye[p]
    <3>1. \A p : Stays(p, Detectors(d)) <=> Stays(p, Detectors(e))
      BY <1>5 DEF Stays
    <3>2. /\ DOMAIN yd = {p \in DOMAIN w : Stays(p, Detectors(d))} \cup DOMAIN Detectors(d)
          /\ \A p \in DOMAIN w : p \notin DOMAIN Detectors(d) /\ Stays(p, Detectors(d))
                 => yd[p] = w[p]
      BY OverlayAt DEF PatchProcessorDetectors
    <3>3. /\ DOMAIN ye = {p \in DOMAIN w : Stays(p, Detectors(e))} \cup DOMAIN Detectors(e)
          /\ \A p \in DOMAIN w : p \notin DOMAIN Detectors(e) /\ Stays(p, Detectors(e))
                 => ye[p] = w[p]
      BY OverlayAt DEF PatchProcessorDetectors
    <3> HIDE DEF yd, ye, w
    <3> QED
      BY <1>5, <3>1, <3>2, <3>3
  <2>2. \A n : ReceiversOf(n) # Setting("detectors") /\ ProcessorsOf(n) # Setting("detectors")
    BY DistinctSetting
  <2> HIDE DEF yd, ye
  <2>3. \A n : /\ Items(yd, ReceiversOf(n)) = Items(ye, ReceiversOf(n))
               /\ Items(yd, ProcessorsOf(n)) = Items(ye, ProcessorsOf(n))
    BY <2>1, <2>2 DEF Items
  <2>4. Lacking(yd) = Lacking(ye)
    BY <2>1, <2>3 DEF Lacking
  <2> QED
    BY <2>3, <2>4 DEF Prepended
<1>8. Overlay(x, Detectors(e)) = z
  <2>1. DOMAIN Prepended(yd) = {ProcessorsOf(n) : n \in Lacking(yd)}
    BY DEF Prepended
  <2>2. DOMAIN Prepended(yd) \cap DOMAIN Detectors(e) = {}
    BY <1>5, <2>1, DistinctSetting
  <2>3. \A p \in DOMAIN Prepended(yd) : Stays(p, Detectors(e))
    BY <1>5, <2>1, DistinctSetting DEF Stays
  <2>4. \A p \in DOMAIN Detectors(e) : Stays(p, Prepended(yd))
    BY <1>5, <2>1, AboveProcessors, Distinct DEF Stays
  <2> HIDE DEF yd, ye, x, z
  <2>5. Overlay(Overlay(yd, Prepended(yd)), Detectors(e))
            = Overlay(Overlay(yd, Detectors(e)), Prepended(yd))
    BY <2>2, <2>3, <2>4, OverlaySwap
  <2> QED
    BY <1>2, <1>6, <1>7, <2>5
<1>9. Lacking(z) = {}
  <2>1. ASSUME NEW n PROVE Items(ye, ProcessorsOf(n)) \in Seq(STRING)
    <3> DEFINE p == ProcessorsOf(n)
    <3>1. p \notin DOMAIN DefaultProcessor /\ p \notin {Processors, Processor, Setting("detectors")}
      BY DefaultAt, Distinct
    <3>2. Setting("detectors") \notin {p} \cup Above(p)
      BY DistinctSetting
    <3>3. \/ p \in DOMAIN ye /\ p \in DOMAIN cfg /\ ye[p] = cfg[p]
          \/ p \notin DOMAIN ye
      BY <3>1, <3>2, ProcessorPatched
    <3>4. Items(ye, p) \in {<<>>, Items(cfg, p)}
      BY <3>3 DEF Items
    <3>5. <<>> \in Seq(STRING)
      OBVIOUS
    <3> HIDE DEF p
    <3> QED
      BY <3>4, <3>5, ItemsType DEF p
  <2> QED
    BY <2>1, NoneLacking DEF PatchCollectorConfig
<1>10. Overlay(z, Prepended(z)) = z
  <2>1. DOMAIN Prepended(z) = {}
    BY <1>9 DEF Prepended
  <2>2. z = [p \in DOMAIN z |-> z[p]]
    BY <1>2 DEF Overlay
  <2> QED
    BY <2>1, <2>2, OverlayNothing
<1> QED
  BY <1>4, <1>8, <1>10 DEF PatchCollectorConfig, EnsureProcessorInHostmetricsPipelines

-----------------------------------------------------------------------------
\* In a whole state the file is the configuration installed last, or a patch of it.
LEMMA FileOfOrigin ==
    ASSUME TypeOK, NoDrift, Whole
    PROVE  /\ origin \in Configs /\ IsConfig(origin) /\ Parsed(file) = file
           /\ \/ file = origin
              \/ \E e \in Envs : file = PatchCollectorConfig(origin, e)
<1>1. origin \in Configs
  BY ConfigsAssumption DEF TypeOK, Whole
<1>2. file \in Versions(origin)
  BY DEF NoDrift, Whole
<1>3. file \in Configs
  BY <1>1, <1>2, ConfigsAssumption DEF Versions
<1>4. Parsed(file) = file
  BY <1>3, OthersAssumption DEF Parsed
<1> QED
  BY <1>1, <1>2, <1>4, LoadAssumption DEF Versions

\* What is loaded is the file or the merge of it.
LEMMA LoadedIs ==
    ASSUME TypeOK, NoDrift, Whole, NEW cfg \in Loadable
    PROVE  cfg = file \/ \E e \in Envs : cfg = EnrichCollectorConfig(file, e)
<1>1. Parsed(file) = file /\ origin \in Configs /\ file \in Configs
  <2>1. Parsed(file) = file /\ origin \in Configs
    BY FileOfOrigin
  <2>2. file \in Versions(origin)
    BY DEF NoDrift, Whole
  <2> QED
    BY <2>1, <2>2, ConfigsAssumption DEF Versions
<1> QED
  BY <1>1, LoadAssumption DEF Loadable

\* All of the file is loaded.
LEMMA LoadedKeeps ==
    ASSUME TypeOK, NoDrift, Whole, NEW cfg \in Loadable
    PROVE  \A p \in DOMAIN file : p \in DOMAIN cfg /\ cfg[p] = file[p]
BY LoadedIs, Merged

\* Whatever is installed, and whatever environments are found on its way, its
\* settings are in the configuration that a collector loads, but for those that
\* MayDiffer excepts: the list of detectors is the patch's.
THEOREM SettingsAreKept == Spec => []SettingsSurvive
<1>1. TypeOK /\ NoDrift => SettingsSurvive
  <2> SUFFICES ASSUME TypeOK, NoDrift, Whole, NEW cfg \in Loadable, NEW path \in DOMAIN origin
               PROVE  \/ path \in DOMAIN cfg /\ cfg[path] = origin[path]
                      \/ MayDiffer(path, origin, cfg)
    BY DEF SettingsSurvive
  <2>1. IsConfig(origin)
    BY FileOfOrigin
  <2>2. \A p \in DOMAIN file : p \in DOMAIN cfg /\ cfg[p] = file[p]
    BY LoadedKeeps
  <2>3. \/ path \in DOMAIN file /\ file[path] = origin[path]
        \/ MayDiffer(path, origin, file)
    BY <2>1, FileOfOrigin, PatchKeeps
  <2> QED
    BY <2>1, <2>2, <2>3, MayStillDiffer
<1> QED
  BY <1>1, TypeCorrect, PatchesDoNotPileUp, PTL

\* Whatever the configuration, once it is patched a collector that names the
\* processor in a pipeline has a definition of it, enriched or not.
THEOREM ProcessorIsDefined == Spec => []ProcessorDefined
<1>1. TypeOK /\ NoDrift => ProcessorDefined
  <2> SUFFICES ASSUME TypeOK, NoDrift, Whole, IsPatched, NEW cfg \in Loadable
               PROVE  IsMap(cfg, Processor)
    BY DEF ProcessorDefined
  <2>1. IsConfig(origin) /\ origin \in Configs
    BY FileOfOrigin
  <2>2. PICK e \in Envs : file = PatchCollectorConfig(origin, e)
    BY <2>1, LoadAssumption DEF IsPatched
  <2>3. IsMap(file, Processor)
    BY <2>1, <2>2, PatchedProcessor
  <2> QED
    BY <2>3, LoadedKeeps DEF IsMap
<1> QED
  BY <1>1, TypeCorrect, PatchesDoNotPileUp, PTL

\* What the settings of a detector lead through is a map in every patched file.
LEMMA PatchedFile ==
    ASSUME NEW cfg, IsConfig(cfg), NEW e, NEW f, f = PatchCollectorConfig(cfg, e)
    PROVE  /\ \A d : Stays(Setting(d), f)
           /\ Setting("k8snode") \notin DOMAIN cfg =>
                 /\ Setting("k8snode") \notin DOMAIN f /\ NodeName \notin DOMAIN f
                 /\ Stays(NodeName, f)
<1>1. IsMap(f, Processors) /\ IsMap(f, Processor)
  BY PatchedProcessor
<1>2. \A d : Stays(Setting(d), f)
  BY <1>1, AboveProcessors DEF Stays, IsMap
<1>3. ASSUME Setting("k8snode") \notin DOMAIN cfg
      PROVE  Setting("k8snode") \notin DOMAIN f /\ NodeName \notin DOMAIN f
  <2> DEFINE y == PatchProcessorDetectors(cfg, e)
  <2>1. \A p \in DOMAIN y :
            p \in DOMAIN cfg \/ p \in DOMAIN DefaultProcessor \/ p = Setting("detectors")
    BY ProcessorPatched
  <2>2. \A p \in DOMAIN f : p \in DOMAIN y \/ \E n \in Lacking(y) : p = ProcessorsOf(n)
    BY PipelinesPatched DEF PatchCollectorConfig
  <2> HIDE DEF y
  <2>3. \A n : Setting("k8snode") # ProcessorsOf(n) /\ NodeName # ProcessorsOf(n)
    BY Distinct
  <2>4. Setting("k8snode") # Setting("detectors") /\ NodeName # Setting("detectors")
    BY DEF Setting, NodeName
  <2>5. NodeName \notin DOMAIN cfg
    BY <1>3, AboveProcessors, ConfigPaths DEF IsMap
  <2>6. Setting("k8snode") \notin DOMAIN DefaultProcessor /\ NodeName \notin DOMAIN DefaultProcessor
    <3>1. Setting("k8snode") \notin {Processors, Processor, Setting("timeout"), Setting("override"),
              Setting("system"), Attributes("system"), HostnameSources}
            \cup {Attribute("system", n) : n \in {"host.name", "host.id"}}
      BY DEF Processors, Processor, Setting, Attributes, HostnameSources, Attribute
    <3>2. NodeName \notin {Processors, Processor, Setting("timeout"), Setting("override"),
              Setting("system"), Attributes("system"), HostnameSources}
            \cup {Attribute("system", n) : n \in {"host.name", "host.id"}}
      BY DEF Processors, Processor, Setting, Attributes, HostnameSources, Attribute, NodeName
    <3> QED
      BY <3>1, <3>2, DefaultAt
  <2> QED
    BY <1>3, <2>1, <2>2, <2>3, <2>4, <2>5, <2>6
<1>4. Setting("k8snode") \notin DOMAIN f => Stays(NodeName, f)
  BY <1>1, AboveProcessors DEF Stays, IsMap
<1> QED
  BY <1>2, <1>3, <1>4

\* A setting that the file does not have itself comes from the generated block.
LEMMA SettingLoaded ==
    ASSUME NEW f, NEW e, NEW cfg, cfg = EnrichCollectorConfig(f, e), NEW d,
           Stays(Setting(d), f), Setting(d) \in DOMAIN GenerateResourceDetectionBlock(e)
    PROVE  Setting(d) \in DOMAIN cfg
BY Merged

\* For the detectors that have settings the two tables agree in every environment,
\* and a file that is patched for it hides none that a listed detector needs.
THEOREM DetectorsAreConfigured == Spec => []DetectorsConfigured
<1>1. TypeOK /\ NoDrift => DetectorsConfigured
  <2> SUFFICES ASSUME TypeOK, NoDrift, NEW e \in Envs, Whole, file = Patch(origin, e),
                      NEW cfg, cfg = Enrich(file, e),
                      NEW listed, listed = ToSet(Items(cfg, Setting("detectors")))
               PROVE  /\ Blocks(e) \subseteq listed
                      /\ \A d \in listed \cap Configurable : Setting(d) \in DOMAIN cfg
                      /\ "k8snode" \in listed =>
                            \/ NodeName \in DOMAIN cfg /\ cfg[NodeName] = Scalar("KM_NODE_NAME")
                            \/ Setting("k8snode") \in DOMAIN origin
    BY DEF DetectorsConfigured
  <2>1. IsConfig(origin) /\ origin \in Configs
    BY FileOfOrigin
  <2>2. e \in CloudEnvironments /\ file = PatchCollectorConfig(origin, e)
    BY <2>1, LoadAssumption
  <2>3. file \in Configs
    BY <2>1, ConfigsAssumption
  <2>4. cfg = EnrichCollectorConfig(file, e)
    BY <2>3, LoadAssumption
  <2>5. listed = ToSet(RecommendedDetectors(e))
    <3>1. /\ Setting("detectors") \in DOMAIN file
          /\ file[Setting("detectors")] = List(RecommendedDetectors(e))
      BY <2>1, <2>2, PatchedProcessor
    <3>2. Setting("detectors") \in DOMAIN cfg /\ cfg[Setting("detectors")]
              = List(RecommendedDetectors(e))
      BY <2>4, <3>1, Merged
    <3> QED
      BY <3>2, ItemsOfList
  <2>6. Blocks(e) \subseteq listed /\ listed \cap Configurable \subseteq Blocks(e) \cup {"system"}
    BY <2>2, <2>5, DetectorTables
  <2>7. ASSUME NEW d \in listed \cap Configurable PROVE Setting(d) \in DOMAIN cfg
    <3>1. Setting(d) \in DOMAIN GenerateResourceDetectionBlock(e)
      BY <2>6, GeneratedSettings
    <3>2. Stays(Setting(d), file)
      BY <2>1, <2>2, PatchedFile
    <3> QED
      BY <2>4, <3>1, <3>2, SettingLoaded
  <2>8. ASSUME "k8snode" \in listed, Setting("k8snode") \notin DOMAIN origin
        PROVE  NodeName \in DOMAIN cfg /\ cfg[NodeName] = Scalar("KM_NODE_NAME")
    <3>1. "k8snode" \in Blocks(e)
      BY <2>6, <2>8 DEF Configurable
    <3>2. /\ NodeName \in DOMAIN GenerateResourceDetectionBlock(e)
          /\ GenerateResourceDetectionBlock(e)[NodeName] = Scalar("KM_NODE_NAME")
      BY <3>1, GeneratedSettings
    <3>3. NodeName \notin DOMAIN file /\ Stays(NodeName, file)
      BY <2>1, <2>2, <2>8, PatchedFile
    <3> QED
      BY <2>4, <3>2, <3>3, Merged
  <2> QED
    BY <2>6, <2>7, <2>8
<1> QED
  BY <1>1, TypeCorrect, PatchesDoNotPileUp, PTL
==============================================================================
