--------------------------------- MODULE MCQueue ---------------------------------
(* Queue for TLC. The methods treat all ids alike, and so do the properties.  *)
EXTENDS Queue, TLC

IdSymmetry == Permutations(Ids)

\* App looks for jobs by their state.
ByState == {{e \in Entries : e["State"] \in S} : S \in SUBSET Values}

=============================================================================
