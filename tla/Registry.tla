------------------------------ MODULE Registry ------------------------------
(***************************************************************************)
(* The tools that the program installs (kindboard-core/src/deps/           *)
(* registry.rs) and the way that deps/mod.rs chooses for one of them on a  *)
(* platform.  Of a recipe, a package stands for its manager ("cask" is     *)
(* Homebrew's other kind), and a pinned digest for its platform.           *)
(***************************************************************************)
EXTENDS Sequences

Arches == {"amd64", "arm64"}
Posix == {<<os, arch>> : os \in {"linux", "darwin"}, arch \in Arches}
WithWindows == Posix \cup {<<"windows", "amd64">>}

docker ==
    [packages |-> {"brew", "cask", "dnf", "apt", "pacman", "winget", "choco"},
     by |-> "none", pins |-> {}, unsupported |-> {}]

kind ==
    [packages |-> {"brew", "dnf", "winget", "choco"},
     by |-> "binary", pins |-> WithWindows, unsupported |-> {}]

kubectl ==
    [packages |-> {"brew", "apt", "pacman", "winget", "choco"},
     by |-> "binary", pins |-> WithWindows, unsupported |-> {}]

helm ==
    [packages |-> {"brew", "dnf", "apt", "pacman", "winget", "choco"},
     by |-> "archive", pins |-> WithWindows, unsupported |-> {}]

cilium ==
    [packages |-> {"brew", "winget", "choco"},
     by |-> "archive", pins |-> WithWindows, unsupported |-> {}]

k9s ==
    [packages |-> {"brew", "dnf", "pacman", "winget", "choco"},
     by |-> "archive", pins |-> WithWindows, unsupported |-> {}]

kubectx ==
    [packages |-> {"brew"},
     by |-> "archive", pins |-> Posix, unsupported |-> {"windows"}]

kustomize ==
    [packages |-> {"brew", "dnf", "pacman", "winget", "choco"},
     by |-> "archive", pins |-> WithWindows, unsupported |-> {}]

TOOLS == {docker, kind, kubectl, helm, cilium, k9s, kubectx, kustomize}

-----------------------------------------------------------------------------
(* The platform: its manager is the first one on the PATH, in this order   *)
(* and whatever the system is.                                             *)

Managers == <<"brew", "dnf", "apt", "pacman", "winget", "choco">>

DetectPlatform(os, arch, onPath) ==
    LET found == SelectSeq(Managers, LAMBDA m : m \in onPath) IN
    [os |-> os, arch |-> arch, manager |-> IF found = <<>> THEN "none" ELSE found[1]]

Platforms ==
    {DetectPlatform(os, arch, onPath) :
        os \in {"linux", "darwin", "windows", "other"}, arch \in Arches,
        onPath \in SUBSET {Managers[k] : k \in DOMAIN Managers}}

\* Homebrew installs docker as a cask.
Package(tool, platform) ==
    IF tool = docker /\ platform.manager = "brew" THEN "cask" ELSE platform.manager

Usable ==
    [linux |-> {"brew", "dnf", "apt", "pacman"}, darwin |-> {"brew"},
     windows |-> {"winget", "choco"}, other |-> {}]

\* Every other system is taken for linux.
PlatformKey(platform) ==
    <<IF platform.os = "other" THEN "linux" ELSE platform.os, platform.arch>>

\* A package if the platform's manager has one, or else the download, which
\* needs a digest pinned for the platform.
ChosenFor(tool, platform) ==
    LET packaged == /\ platform.manager \in Usable[platform.os]
                    /\ Package(tool, platform) \in tool.packages
        pinned == PlatformKey(platform) \in tool.pins
    IN CASE platform.os \in tool.unsupported -> "none"
         [] platform.os \notin tool.unsupported /\ packaged -> "package"
         [] platform.os \notin tool.unsupported /\ ~packaged -> IF pinned THEN tool.by ELSE "none"

RecipesOf(tools) ==
    {[by |-> ChosenFor(tool, platform), windows |-> platform.os = "windows"] :
        tool \in tools, platform \in Platforms}
=============================================================================
