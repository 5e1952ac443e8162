---------------------------- MODULE MCSeeders ----------------------------
(* The data files, cut to two of each kind. *)
EXTENDS Seeders

Roles == <<"super-admin", "courier", "admin-branch">>
Permissions == {"employee.create", "delivery.read"}
Grants == [key \in {"super-admin", "courier", "admin-branch"} |->
  CASE key = "super-admin"  -> {"employee.create", "delivery.read", "shipments.update"}
    [] key = "admin-branch" -> {"employee.create", "shipments.update"}
    [] key = "courier"      -> {"delivery.read"}]
Users == <<[email |-> "superadmin@mail.com", roleKey |-> "super-admin"]>>
Branches == <<"Jakarta Pusat", "Surabaya">>
Employees == <<
  [email |-> "courier.jakarta@mail.com", roleKey |-> "courier", branchName |-> "Jakarta Pusat"],
  [email |-> "adminbranch.surabaya@mail.com", roleKey |-> "admin-branch", branchName |-> "Surabaya"]>>
=============================================================================
