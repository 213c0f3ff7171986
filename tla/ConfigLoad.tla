------------------------------ MODULE ConfigLoad ------------------------------
(***************************************************************************)
(* What a collector loads: ConfigFile with the patch, the generated block  *)
(* and the merge of CollectorConfig, and the properties of the result.     *)
(***************************************************************************)
EXTENDS ConfigFile, CollectorConfig

ASSUME LoadAssumption ==
    /\ Envs \subseteq CloudEnvironments
    /\ \A c \in Configs : IsConfig(c)
    /\ \A c \in Configs, e \in Envs :
          Patch(c, e) = PatchCollectorConfig(c, e) /\ Enrich(c, e) = EnrichCollectorConfig(c, e)

Whole == pc = "up" /\ origin # Lost

\* Its patch has succeeded, at startup or when it was delivered.
IsPatched == \E e \in Envs : file = Patch(origin, e)
-----------------------------------------------------------------------------
\* Where what is at path in one configuration is not found in cfg, the other: in
\* the list of detectors, in what is no map where the code needs one, and in the
\* processors of a pipeline, which keep their order behind the one put first.
MayDiffer(path, from, cfg) ==
    \/ Setting("detectors") \in {path} \cup Above(path)
    \/ path \in {Processors, Processor} /\ ~IsMap(from, path)
    \/ LET processors == ProcessorsOf(path[3])
       IN  /\ Len(path) >= 4 /\ processors \in {path} \cup Above(path)
           /\ Items(cfg, processors) = <<ProcessorKey>> \o Items(from, processors)

\* What the user or the server has set is loaded as it is, through patches,
\* restarts, crashes and the merge, but for what MayDiffer excepts: above all the
\* list of detectors, which the patch replaces (configpatch.go:70).
SettingsSurvive ==
    Whole =>
        \A cfg \in Loadable : \A path \in DOMAIN origin :
            \/ path \in DOMAIN cfg /\ cfg[path] = origin[path]
            \/ MayDiffer(path, origin, cfg)

\* The detectors that config_enricher.go has settings for; others, such as docker,
\* consul or vultr, are listed without any.
Configurable == {"system", "ec2", "eks", "ecs", "lambda", "gcp", "azure", "k8snode"}

\* The list of detectors comes from types.go, their settings from
\* config_enricher.go, and the user's file is in between: if the file has been
\* patched for the environment that the enrichment finds, each of these detectors
\* that is generated is listed, and each that is listed has its settings.
DetectorsConfigured ==
    \A e \in Envs :
        Whole /\ file = Patch(origin, e) =>
            LET cfg == Enrich(file, e)
                listed == ToSet(Items(cfg, Setting("detectors")))
            IN  /\ Blocks(e) \subseteq listed
                /\ \A d \in listed \cap Configurable : Setting(d) \in DOMAIN cfg
                /\ "k8snode" \in listed =>
                      \/ NodeName \in DOMAIN cfg /\ cfg[NodeName] = Scalar("KM_NODE_NAME")
                      \/ Setting("k8snode") \in DOMAIN origin

\* A pipeline never names the processor without a definition of it, even if the
\* enrichment fails: the collector would refuse to start.
ProcessorDefined ==
    Whole /\ IsPatched =>
        \A cfg \in Loadable :
            (\E path \in DOMAIN cfg :
                Len(path) = 4 /\ path = ProcessorsOf(path[3])
                    /\ Contains(Items(cfg, path), ProcessorKey))
            => IsMap(cfg, Processor)

\* config_enricher.go: the timeout is longer in cloud environments, where nobody
\* has set another.
CloudTimeout ==
    \A e \in Envs :
        Whole /\ Setting("timeout") \notin DOMAIN origin =>
            LET cfg == Enrich(Parsed(file), e)
            IN  IsMap(cfg, Processor) => cfg[Setting("timeout")] = Scalar(PickTimeout(e))
=============================================================================
