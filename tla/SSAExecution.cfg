CONSTANTS
  MaxTokens = 5
  MaxMemTokens = 3
  Programs <- SomePrograms
  Decls = {"x", "y", "t"}
  Params = {"y"}
  Globals = {"g"}
  VarParams = {"p"}
  NoDecl = ""
  Data = {0, 1}
  Unset = unset
  Zero = 0
SPECIFICATION ExecSpec
CONSTRAINT Explored
PROPERTIES ImplementsSource
