---------------------------- MODULE MCInventory ----------------------------
EXTENDS Inventory_inv, TLC
AllMixes ==
  {{"createBoard", "updateBoard", "destroyFleet"},
   {"createBoard", "destroyBoard"},
   {"updateBoard", "updateFleet", "createFleet", "destroyFleet"},
   {"injectPlugin", "removePlugin", "destroyPlugin"},
   {"injectPlugin", "actionPlugin", "updatePlugin", "createPlugin"},
   {"injectPlugin", "destroyBoard"},
   {"enableService", "destroyBoard"},
   {"enableService", "createService", "updateService", "destroyService"}}
ClientSymmetry == Permutations(Clients)
=============================================================================
