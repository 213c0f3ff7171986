---------------------------- MODULE CollectorConfig ----------------------------
(***************************************************************************)
(* Collector configurations as unmarshalled YAML, and the two functions    *)
(* that change them: PatchCollectorConfig (internal/clouddetect) and the   *)
(* generated block with its merge (internal/shared/config_enricher.go).    *)
(*                                                                         *)
(* A configuration is the function from the paths of keys that lead to its *)
(* nodes to what is there: a map, a list of strings, a null or a scalar    *)
(* (any other value).  What a map holds is at longer paths.  The           *)
(* attributes a generated block enables are left out but for one that      *)
(* stands for all.                                                         *)
(***************************************************************************)
EXTENDS CloudEnvironment, SequencesExt

Node(kind, items) == [kind |-> kind, items |-> items]
Null == Node("null", <<>>)
MapNode == Node("map", <<>>)
Scalar(value) == Node("scalar", <<value>>)
List(items) == Node("list", items)
Nodes == [kind : {"null", "map", "scalar", "list"}, items : Seq(STRING)]

IsMap(cfg, path) == path \in DOMAIN cfg /\ cfg[path] = MapNode
Items(cfg, path) ==
    IF path \in DOMAIN cfg /\ cfg[path].kind = "list" THEN cfg[path].items ELSE <<>>

\* The paths of the maps a path leads through.
Above(path) == {SubSeq(path, 1, n) : n \in 1 .. Len(path) - 1}

\* Every node is at the top or in a map.
IsConfig(cfg) ==
    /\ DOMAIN cfg \subseteq Seq(STRING) \ {<<>>}
    /\ cfg \in [DOMAIN cfg -> Nodes]
    /\ \A path \in DOMAIN cfg :
          /\ cfg[path].kind = "map" => cfg[path] = MapNode
          /\ \A p \in Above(path) : IsMap(cfg, p)

\* Nodes put over those of a configuration: maps are joined, and what was below
\* anything else is gone.
Stays(path, nodes) == \A p \in Above(path) : p \in DOMAIN nodes => nodes[p] = MapNode
Overlay(base, nodes) ==
    [path \in {p \in DOMAIN base : Stays(p, nodes)} \cup DOMAIN nodes |->
        IF path \in DOMAIN nodes THEN nodes[path] ELSE base[path]]

Leaf(path, node) == [p \in {path} |-> node]
-----------------------------------------------------------------------------
Processors == <<"processors">>
ProcessorKey == "resourcedetection"
Processor == <<"processors", ProcessorKey>>
Setting(key) == <<"processors", ProcessorKey, key>>
Attributes(key) == <<"processors", ProcessorKey, key, "resource_attributes">>
Attribute(key, name) == <<"processors", ProcessorKey, key, "resource_attributes", name>>

\* The map of a detector's settings, with the attributes it enables.
Enabled(key, names) ==
    [p \in {Setting(key), Attributes(key)} \cup {Attribute(key, n) : n \in names} |->
        IF Len(p) = 5 THEN Scalar("true") ELSE MapNode]

HostnameSources == <<"processors", ProcessorKey, "system", "hostname_sources">>
System(names) ==
    Overlay(Enabled("system", names),
            Leaf(HostnameSources, List(<<"os">>)))

\* The processor with what every generated one has.
Generated(timeout) ==
    [p \in {Processors, Processor, Setting("timeout"), Setting("override")} |->
        CASE p = Setting("timeout") -> Scalar(timeout)
          [] p = Setting("override") -> Scalar("false")
          [] OTHER -> MapNode]

DefaultProcessor == Overlay(Generated("5s"), System({"host.name", "host.id"}))

Detectors(e) == Leaf(Setting("detectors"), List(RecommendedDetectors(e)))

WithProcessor(cfg) ==
    IF IsMap(cfg, Processor) THEN cfg ELSE Overlay(cfg, DefaultProcessor)

\* The detectors of an existing processor are replaced, the rest is kept.
PatchProcessorDetectors(cfg, e) == Overlay(WithProcessor(cfg), Detectors(e))

ReceiversOf(name) == <<"service", "pipelines", name, "receivers">>
ProcessorsOf(name) == <<"service", "pipelines", name, "processors">>

\* The pipelines of host metrics that do not name the processor.
Lacking(cfg) ==
    {name \in {p[3] : p \in {q \in DOMAIN cfg : Len(q) = 3}} :
        /\ Contains(Items(cfg, ReceiversOf(name)), "hostmetrics")
        /\ ~Contains(Items(cfg, ProcessorsOf(name)), ProcessorKey)}

\* Mutant: every processor the pipeline had is replaced.
PrependedAlone(cfg) ==
    [p \in {ProcessorsOf(name) : name \in Lacking(cfg)} |-> List(<<ProcessorKey>>)]

\* They get it in front of their others.
Prepended(cfg) ==
    [p \in {ProcessorsOf(name) : name \in Lacking(cfg)} |->
        List(<<ProcessorKey>> \o Items(cfg, p))]

EnsureProcessorInHostmetricsPipelines(cfg) == Overlay(cfg, Prepended(cfg))

\* Mutant: the processor itself is not patched.
PatchOnlyPipelines(cfg, e) == EnsureProcessorInHostmetricsPipelines(cfg)

PatchCollectorConfig(cfg, e) ==
    EnsureProcessorInHostmetricsPipelines(PatchProcessorDetectors(cfg, e))
-----------------------------------------------------------------------------
PickTimeout(e) == IF e.provider # "on-prem" THEN "10s" ELSE "5s"

\* The detectors that are given settings in environment e.
Blocks(e) ==
    CASE e.provider = "aws" ->
            (CASE e.compute \in {"ec2", "elastic_beanstalk"} -> {"ec2"}
               [] e.compute = "eks" -> {"ec2", "eks", "k8snode"}
               [] e.compute \in {"ecs", "fargate"} -> {"ecs"}
               [] e.compute = "lambda" -> {"lambda"})
      [] e.compute = "gke" -> {"gcp", "k8snode"}
      [] e.provider = "gcp" /\ e.compute # "gke" -> {"gcp"}
      [] e.compute = "aks" -> {"azure", "k8snode"}
      [] e.compute = "azure_vm" -> {"azure"}
      [] e.compute = "kubernetes" -> {"k8snode"}
      [] OTHER -> {}

NodeName == <<"processors", ProcessorKey, "k8snode", "node_from_env_var">>

\* Their settings; those of k8snode name the variable that holds the node's name.
DetectorSettings(e) ==
    [p \in {Setting(d) : d \in Blocks(e)} \cup {Attributes(d) : d \in Blocks(e)}
              \cup {Attribute(d, "cloud.provider") : d \in Blocks(e)}
              \cup {NodeName : d \in Blocks(e) \cap {"k8snode"}} |->
        CASE p = NodeName -> Scalar("KM_NODE_NAME")
          [] Len(p) = 5 -> Scalar("true")
          [] OTHER -> MapNode]

GenerateResourceDetectionBlock(e) ==
    Overlay(Overlay(Generated(PickTimeout(e)), System({"host.name", "host.id", "os.type"})),
            Overlay(DetectorSettings(e), Detectors(e)))

\* Mutant: what the user has written gives way.
DeepMergeMapBase(base, override) == Overlay(override, base)

\* The recursion goes down where both have a map; elsewhere override prevails.
DeepMergeMap(base, override) == Overlay(base, override)

EnrichCollectorConfig(cfg, e) == DeepMergeMap(GenerateResourceDetectionBlock(e), cfg)
=============================================================================
