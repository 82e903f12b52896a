CONSTANTS
    Order = {o1}
    Request = {r1, r2}
    VenueTargets <- Documented
SYMMETRY Symmetric
SPECIFICATION Spec
PROPERTIES
    StatusFollowsTable
