CONSTANTS
  MaxTokens = 5
  Programs <- SomePrograms
  Decls = {"x", "y"}
  Params = {"y"}
  Globals = {"g"}
  VarParams = {}
  NoDecl = ""
SPECIFICATION SSASpec
INVARIANTS NoDangling
