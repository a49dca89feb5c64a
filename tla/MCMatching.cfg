SPECIFICATION Spec
CONSTANTS
  Category <- MCCategory
  ArgSorts <- MCArgSorts
  ResultSort <- MCResultSort
  Constructors <- MCConstructors
  Overloads <- MCOverloads
  ElementSorts <- MCElementSorts
  ResidualSyms <- MCResidualSyms
  Limb = 4
  Hook <- MCHook
  FreshNames <- MCFreshNames
  Compiler <- MCCompiler
  Progs <- MCProgs
  SubjectsOf <- MCSubjectsOf
  SubstsOf <- MCSubstsOf
INVARIANTS
  ReadsDefined
  AppliesBestRule
  StuckOnlyWithoutMatch
  SearchIsExact
  UselessIsCovered
  
  ChoicesFit
  StuckRebuildsTerm
PROPERTY Terminates
