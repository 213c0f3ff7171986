--------------------------- MODULE CloudEnvironment ---------------------------
(***************************************************************************)
(* The verdicts of cloud detection (internal/clouddetect/types.go): the    *)
(* compute types of each provider and the resource detectors recommended   *)
(* for an environment.  Regions, identifiers and host names are left out:  *)
(* no decision of the program depends on them.                             *)
(***************************************************************************)
EXTENDS Sequences

\* The compute types a detector gives with each provider.
Platforms ==
    ({"aws"} \X {"ec2", "ecs", "fargate", "eks", "lambda", "elastic_beanstalk"})
    \cup ({"gcp"} \X {"gce", "gke", "cloud_run", "cloud_functions", "app_engine"})
    \cup ({"azure"} \X {"azure_vm", "aks"})
    \cup ({"on-prem"} \X {"kubernetes", "bare_metal"})
    \cup {<<"oci", "oci">>, <<"digitalocean", "digitalocean">>,
          <<"vultr", "vultr">>, <<"alibaba_cloud", "alibaba_ecs">>}

\* Signals that do not depend on the provider; env.Metadata holds them.
CrossCutting == {"docker", "consul", "openshift"}

CloudEnvironments ==
    {[provider |-> p[1], compute |-> p[2], flags |-> f] :
        p \in Platforms, f \in SUBSET CrossCutting}

\* Mutant: Fargate is taken for a virtual machine.
AWSDetectorsMixed(compute) ==
    CASE compute \in {"ec2", "fargate"} -> <<"ec2">>
      [] compute = "eks" -> <<"ec2", "eks", "k8snode">>
      [] compute = "ecs" -> <<"ecs">>
      [] compute = "lambda" -> <<"lambda">>
      [] compute = "elastic_beanstalk" -> <<"ec2", "elastic_beanstalk">>

AWSDetectors(compute) ==
    CASE compute = "ec2" -> <<"ec2">>
      [] compute = "eks" -> <<"ec2", "eks", "k8snode">>
      [] compute \in {"ecs", "fargate"} -> <<"ecs">>
      [] compute = "lambda" -> <<"lambda">>
      [] compute = "elastic_beanstalk" -> <<"ec2", "elastic_beanstalk">>

\* What the provider's case appends to the list.
PlatformDetectors(e) ==
    CASE e.provider = "aws" -> AWSDetectors(e.compute)
      [] e.compute = "gke" -> <<"gcp", "k8snode">>
      [] e.provider = "gcp" /\ e.compute # "gke" -> <<"gcp">>
      [] e.compute = "aks" -> <<"azure", "aks", "k8snode">>
      [] e.compute = "azure_vm" -> <<"azure">>
      [] e.provider = "oci" -> <<"oraclecloud">>
      [] e.provider \in {"digitalocean", "vultr"} -> <<e.provider>>
      [] e.provider = "alibaba_cloud" -> <<"alibaba_ecs">>
      [] e.compute = "kubernetes" -> <<"k8snode", "kubeadm">>
      [] e.compute = "bare_metal" -> <<>>

RecommendedDetectors(e) ==
    LET Flag(f) == IF f \in e.flags THEN <<f>> ELSE <<>>
    IN  <<"env", "system">> \o PlatformDetectors(e)
            \o Flag("docker") \o Flag("consul") \o Flag("openshift")
=============================================================================
