-------------------------- MODULE DirectorySearch --------------------------
(***************************************************************************)
(* cw02/zad2: two searches of a tree of directories for regular files up to *)
(* a given size, one with readdir, one with nftw.  The first recurses with  *)
(* buffers that two levels share: the tmpRoot of a call is the root_path of *)
(* the calls it makes, which append the name of their directory to it.      *)
(*                                                                          *)
(* A path is the sequence of its names.  The tree does not change while it  *)
(* is searched, and no path is longer than the buffers.                     *)
(***************************************************************************)
EXTENDS Naturals, Sequences, SequencesExt

CONSTANTS Names, Depth

Path == UNION {[1 .. k -> Names] : k \in 1 .. Depth}
Kinds == {"file",       \* regular and small enough
          "skipped",    \* anything else that is no directory
          "dir",
          "locked",     \* a directory that cannot be opened
          "none"}

VARIABLES tree,         \* what there is at each path
          version,      \* third argument
          searchAt,     \* "run", "end", "crashed"
          roots,        \* the buffers: root_path of each call, tmpRoot of the last
          dents,        \* the names that readdir has still to give to each call
          found         \* the files that have been printed

vars == <<tree, version, searchAt, roots, dents, found>>

Init == /\ tree \in [Path -> Kinds]
        /\ \A p \in Path : Len(p) > 1 /\ tree[p] # "none" => tree[Front(p)] = "dir"
        /\ version \in {"normal", "unftw"}
        /\ searchAt = "run"
        /\ roots = <<<<>>, <<>>>>
        /\ dents = <<{n \in Names : tree[<<n>>] # "none"}>>
        /\ found = <<>>

Running(v) == searchAt = "run" /\ version = v
level == Len(dents)

\* Mutant: the buffer is not set back.
TmpRootKept == roots[level + 1]

\* strcpy(tmpRoot,root_path)
tmpRoot == roots[level]

\* An object at dentPath is searched, listed or passed over.
Kind(path) == IF path \in Path THEN tree[path] ELSE "none"
Entries(path) == {n \in Names : Kind(Append(path, n)) # "none"}

-----------------------------------------------------------------------------
(* search *)

\* The next name: dentPath is tmpRoot and the name.
Take(name, kinds) == /\ Running("normal")
                     /\ name \in dents[level]
                     /\ Kind(Append(tmpRoot, name)) \in kinds

Taken(name) == [dents EXCEPT ![level] = @ \ {name}]

checkReg(name) == /\ \/ Take(name, {"file"}) /\ found' = Append(found, Append(tmpRoot, name))
                     \/ Take(name, {"skipped", "none"}) /\ UNCHANGED found
                  /\ dents' = Taken(name)
                  /\ roots' = [roots EXCEPT ![level + 1] = tmpRoot]
                  /\ UNCHANGED <<tree, version, searchAt>>

\* The call appends the name to the buffer of its caller.
search(name) == /\ Take(name, {"dir"})
                /\ LET path == Append(tmpRoot, name)
                   IN /\ roots' = Append([roots EXCEPT ![level + 1] = path], <<>>)
                      /\ dents' = Append(Taken(name), Entries(path))
                /\ UNCHANGED <<tree, version, searchAt, found>>

\* opendir returns NULL, and readdir(NULL) ends the program.
Crash(name) == /\ Take(name, {"locked"})
               /\ searchAt' = "crashed"
               /\ UNCHANGED <<tree, version, roots, dents, found>>

Return == /\ Running("normal") /\ dents[level] = {}
          /\ IF level = 1
             THEN searchAt' = "end" /\ UNCHANGED <<roots, dents>>
             ELSE /\ roots' = Front(roots) /\ dents' = Front(dents)
                  /\ UNCHANGED searchAt
          /\ UNCHANGED <<tree, version, found>>

-----------------------------------------------------------------------------
Files == {p \in Path : tree[p] = "file"}

\* nftw calls display_info once for each object, directories it cannot open
\* included; only regular files are printed.
searchnftw == /\ Running("unftw")
              /\ found' = SetToSeq(Files)
              /\ searchAt' = "end"
              /\ UNCHANGED <<tree, version, roots, dents>>

Next == \/ \E name \in Names : checkReg(name) \/ search(name) \/ Crash(name)
        \/ Return \/ searchnftw
        \/ searchAt # "run" /\ UNCHANGED vars

Spec == Init /\ [][Next]_vars

-----------------------------------------------------------------------------
\* Both versions print the same: each file that is small enough once, under its own
\* path, whatever the order of the directories and although the levels of the
\* recursion write into each other's buffers; only a directory that cannot be
\* opened ends the first one early (main.c:51-113, 137-160).
EachFileFoundOnce ==
    /\ ToSet(found) \subseteq Files
    /\ \A k, l \in 1 .. Len(found) : found[k] = found[l] => k = l
    /\ searchAt = "end" => ToSet(found) = Files
    /\ searchAt = "crashed" => \E p \in Path : tree[p] = "locked"
=============================================================================
