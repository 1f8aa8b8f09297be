SPECIFICATION Spec
INVARIANTS
  SchemaMatchesRevision
  HeadMatchesModels
  OnlyDuplicatesFail
