SPECIFICATION Spec
CONSTANTS
    Families <- MCFamilies
    Contingent <- MCContingent
    Requests <- MCRequests
    Paths <- MCPaths
    Lines <- MCLines
INVARIANTS
    WritersSeparated
    ReadersTracked
    OrderIndependent
    ContractsAgree
    PromotionStaysDeclared
CHECK_DEADLOCK FALSE
