------------------------------ MODULE Acceptance ------------------------------
(***************************************************************************)
(* Choosing the composition of an invocation (acceptance.rs): the daemon   *)
(* publishes which compositions of the protocol's schema it reads before   *)
(* it binds its socket, and the launcher, whose library is one chain of    *)
(* the base and its layers, chooses from that before it connects.          *)
(*                                                                         *)
(* A component is its hash, a sequence of bytes. A signature stands as the *)
(* sequence of the components it is made of: bintel.rs makes it so that    *)
(* its length tells their number.                                          *)
(***************************************************************************)
EXTENDS Integers, Sequences, SequencesExt

CONSTANTS
    chain,          \* the base and the layers this launcher holds, in their order
    Newer,          \* layers that only daemons hold
    Foreign,        \* the base of another protocol
    SHORTEST,       \* the fewest bytes of a hash a component may be named by
    HASH            \* the bytes of a hash

Hashes == ToSet(chain) \cup Newer \cup {Foreign}

Layers == (ToSet(chain) \ {chain[1]}) \cup Newer

\* No two hashes are the same and, where the launcher holds one of them only, no two begin alike.
ASSUME AcceptanceAssumption ==
    /\ chain \in Seq(Seq(Nat)) /\ Len(chain) >= 1 /\ IsInjective(chain)
    /\ Newer \subseteq Seq(Nat) /\ Foreign \in Seq(Nat)
    /\ HASH \in Nat /\ SHORTEST \in 1..HASH /\ \A h \in Hashes : Len(h) = HASH
    /\ \A h \in Newer \cup {Foreign} : \A own \in ToSet(chain) :
         SubSeq(h, 1, SHORTEST) # SubSeq(own, 1, SHORTEST)

VARIABLES
    reads,          \* what the daemon reads: its base, what it requires and what it holds
    published,      \* its acceptance: alternatives, or <<>> if there is no file
    choosing,       \* "down", "up", "trying", "extending", "chosen" or "mismatch"
    trying,         \* the alternative that is looked at
    depth           \* how many components of the chain it comes to

acceptanceVars == <<reads, published, choosing, trying, depth>>

AcceptanceInit ==
    /\ reads = [requires |-> <<>>, holds |-> {}] /\ published = <<>>
    /\ choosing = "down" /\ trying = 0 /\ depth = 0

-----------------------------------------------------------------------------
\* Ways to name a set of layers, by beginnings of hashes no two of them share.
Names(held) ==
    {name \in [held -> SHORTEST..HASH] :
        \A one, other \in held :
            one # other => ~IsPrefix(SubSeq(one, 1, name[one]), other)}

\* A daemon comes up. It requires the base, or the base with layers, and names the others it
\* holds or, holding all there are, says so; it may offer first what it prefers and this
\* launcher cannot serve. One that predates acceptances publishes nothing and reads the base.
Publish ==
    /\ choosing = "down" /\ choosing' = "up"
    /\ \E base \in {chain[1], Foreign}, held \in SUBSET Layers, all \in BOOLEAN,
          required \in 0..(Len(chain) - 1),
          preferred \in {<<>>, <<Foreign>>, chain \o <<Foreign>>} :
         LET requires == <<base>> \o SubSeq(chain, 2, required + 1)
             alternative(name) ==
                [schema |-> requires, any_published |-> all,
                 components |-> {SubSeq(h, 1, name[h]) : h \in held \ ToSet(requires)}]
             refused == [schema |-> preferred, any_published |-> TRUE, components |-> {}]
         IN  /\ ToSet(requires) \subseteq held \cup {base}
             /\ all => held = Layers
             /\ reads' = [requires |-> requires, holds |-> held]
             /\ \/ requires = <<base>> /\ held = {} /\ published' = <<>>
                \/ \E name \in Names(held) :
                     published' = (IF preferred = <<>> THEN <<>> ELSE <<refused>>)
                                  \o <<alternative(name)>>
    /\ UNCHANGED <<trying, depth>>

\* load: with nothing to read, or nothing that parses, the base alone.
Load ==
    /\ choosing = "up"
    /\ IF published = <<>>
       THEN choosing' = "chosen" /\ depth' = 1 /\ UNCHANGED trying
       ELSE choosing' = "trying" /\ trying' = 1 /\ UNCHANGED depth
    /\ UNCHANGED <<reads, published>>

\* component_count and palimpsest: the signature is that of a prefix of the chain.
Servable(alternative) == IsPrefix(alternative.schema, chain)

\* Mutant: whatever the name begins is denoted.
DenotesAny(prefix, position) == IsPrefix(prefix, chain[position])

\* The name begins one component of the chain, the one at the position, and no other.
Denotes(prefix, position) ==
    {other \in DOMAIN chain : IsPrefix(prefix, chain[other])} = {position}

Named(alternative, position) ==
    \/ alternative.any_published
    \/ \E component \in alternative.components : Denotes(component, position)

\* choose: alternatives are tried in order,
Try ==
    /\ choosing = "trying"
    /\ \/ trying > Len(published) /\ choosing' = "mismatch" /\ UNCHANGED <<trying, depth>>
       \/ /\ trying <= Len(published) /\ ~Servable(published[trying])
          /\ trying' = trying + 1 /\ UNCHANGED <<choosing, depth>>
       \/ /\ trying <= Len(published) /\ Servable(published[trying])
          /\ choosing' = "extending" /\ depth' = Len(published[trying].schema)
          /\ UNCHANGED trying
    /\ UNCHANGED <<reads, published>>

\* and the first that can be served is extended layer by layer, as far as they are named.
Extend ==
    /\ choosing = "extending"
    /\ IF depth < Len(chain) /\ Named(published[trying], depth + 1)
       THEN depth' = depth + 1 /\ UNCHANGED choosing
       ELSE choosing' = "chosen" /\ UNCHANGED depth
    /\ UNCHANGED <<reads, published, trying>>

AcceptanceNext == Publish \/ Load \/ Try \/ Extend

AcceptanceSpec == AcceptanceInit /\ [][AcceptanceNext]_acceptanceVars

-----------------------------------------------------------------------------
\* The daemon reads a composition that is what it requires and, beyond that, layers it holds.
ReadsDepth(n) ==
    /\ IsPrefix(reads.requires, SubSeq(chain, 1, n))
    /\ \A layer \in (Len(reads.requires) + 1)..n : chain[layer] \in reads.holds

\* Whether some name the daemon gives begins two components this launcher holds.
Ambiguous ==
    \E i \in DOMAIN published : \E component \in published[i].components :
        \E one, other \in DOMAIN chain :
            one # other /\ IsPrefix(component, chain[one]) /\ IsPrefix(component, chain[other])

\* The launcher writes under a composition the daemon reads - the richest both hold, unless a
\* name is ambiguous - and gives up only on a daemon that reads none of its compositions
\* (layout.md:97-146, bintel.rs:12-19). A daemon that publishes nothing is taken to read the base.
Negotiated ==
    /\ choosing = "chosen" =>
         /\ published # <<>> => ReadsDepth(depth)
         /\ published # <<>> /\ ~Ambiguous => \A n \in (depth + 1)..Len(chain) : ~ReadsDepth(n)
    /\ choosing = "mismatch" => \A n \in DOMAIN chain : ~ReadsDepth(n)
=============================================================================
