----------------------------- MODULE BackendPaths -----------------------------
(***************************************************************************)
(* Where a tool's path leads: the routing of CompositeBackend              *)
(* (crates/deepagents/src/backends/composite.rs) and the virtual root of   *)
(* LocalSandbox (backends/local.rs).  A path is the sequence of its names, *)
(* without . and .., and no name is a symbolic link.                       *)
(***************************************************************************)
EXTENDS Naturals, Sequences
LOCAL INSTANCE SequencesExt

CONSTANTS
  Root,    \* the directory of the default backend
  Routes   \* prefixes -> the directories of their backends

Matching(path) == {prefix \in DOMAIN Routes : IsPrefix(prefix, path)}

\* Of the prefixes that match the longest.
Best(path) ==
  CHOOSE prefix \in Matching(path) :
    \A other \in Matching(path) : Len(other) <= Len(prefix)

\* A path under the root is taken as it is, any other one below the root.
Resolved(root, path) == IF IsPrefix(root, path) THEN path ELSE root \o path

\* The file on the host. Its path is what a tool reports, and what the state
\* knows the file by.
Located(path) ==
  IF Matching(path) = {} THEN Resolved(Root, path)
  ELSE Resolved(Routes[Best(path)], SubSeq(path, Len(Best(path)) + 1, Len(path)))
=============================================================================
