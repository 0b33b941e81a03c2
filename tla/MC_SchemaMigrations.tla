------------------------ MODULE MC_SchemaMigrations ------------------------
EXTENDS SchemaMigrations, ConstraintSteps, TLC
LOCAL Folded == INSTANCE SequencesExt

\* A database that grew before the baseline was stamped with it.
Stamp == <<3, Ungrown>>

\* The schema after each migration, from nothing.
After == Folded!FoldLeft(LAMBDA built, m : Append(built, Made(m, built[Len(built)])), <<{}>>, AllSteps)
ByTheChain == [v \in 0..Len(AllSteps) |-> After[v + 1]]

\* The runs are alike.
Alike == Permutations(Runs)
=============================================================================
