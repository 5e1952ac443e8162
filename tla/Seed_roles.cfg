\* One run of seed.ts on an empty database.
SPECIFICATION Spec
CONSTANTS
  RoleData <- Roles
  PermissionData <- Permissions
  GrantData <- Grants
  UserData <- Users
  BranchData <- Branches
  EmployeeData <- Employees
  MaxRuns = 1
  MaxChanges = 0
INVARIANT SeededAsWritten
CHECK_DEADLOCK FALSE
