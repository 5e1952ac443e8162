\* Three runs, whole or of one script, dying anywhere, and two changes in between.
SPECIFICATION Spec
CONSTANTS
  RoleData <- Roles
  PermissionData <- Permissions
  GrantData <- Grants
  UserData <- Users
  BranchData <- Branches
  EmployeeData <- Employees
  MaxRuns = 3
  MaxChanges = 2
INVARIANT CrashIsHealed
PROPERTY OnlyAdds
CHECK_DEADLOCK FALSE
