SPECIFICATION Spec
CONSTANTS
  claude = claude
  codex = codex
  gemini = gemini
  Required <- TheRequired
  Optional <- TheOptional
  MaxCorrections = 2
  None = None
INVARIANTS
  TypeOK
  VerifiedIsEarned
  ResultIsOneDraft
  CallsFormAChain
  LossIsAdmitted
