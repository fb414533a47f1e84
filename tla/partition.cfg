SPECIFICATION Spec
CONSTANT Pictures <- SmallPictures
INVARIANTS NoCheckFails UnitsTile NoSmallBlocks TreesReadBack QuantisationGroups LinkedByChannel
